---------------------------- MODULE Spec2Model ----------------------------
(***************************************************************************)
(* A model of heapmaster (sreznick/heapmaster): the HPROF decoder of       *)
(* internal/hprof/class.go (readHeader, readRecord, ParseHeapDump and the  *)
(* package-level store maps), the header and identifier readers of the     *)
(* hprof package (ReadHeader, Record.ReadId, RecordUtf8.Init), the class   *)
(* retained-size computation CalculateClassSizes and the HTTP front-end    *)
(* that calls ParseHeapDump once per request.                              *)
(*                                                                         *)
(* The module holds several specifications over one set of variables:      *)
(*   ClosureSpec   CalculateClassSizes over a decoded store                *)
(*   IngestSpec    ParseHeapDump's sub-record loop, one HTTP request after *)
(*                 the other                                               *)
(*   WebSpec       the same, the requests served by concurrent goroutines  *)
(*   FrameSpec     readRecord and ParseHeapDump's record loop over the     *)
(*                 bytes of a file                                         *)
(*   DecodeSpec    header and string records read by ParseHeapDump and by  *)
(*                 dumpFile (ReadHeader, ReadRecord, RecordUtf8.Init)      *)
(*   StackSpec     the thread, stack-trace and stack-frame records and the *)
(*                 thread stacks built from them                           *)
(*   StringsSpec   AnalyzeDuplicateStrings over java.lang.String instances *)
(*   TopSpec       PrintSizeClasses, PrintCountInstances and               *)
(*                 AnalyzeDuplicateStrings over a decoded dump             *)
(*   SizeSpec      getObjectSize over arrays and a header                  *)
(*   ProjectionSpec  parseInstanceReferences over a chain of classes       *)
(*   OwnersSpec    AnalyzeArrayOwners and AnalyzeTopArrayOwners over the   *)
(*                 tables of a decoded dump                                *)
(*   SessionSpec   the command loop of dumpFile and the command of an HTTP *)
(*                 request                                                 *)
(*   SegmentSpec   the sub-record loops of ParseHeapDump and of            *)
(*                 processHeapDumpSegment over heap-dump records           *)
(*   ExtractSpec   ExtractCallStackRecords and GetFrameData over a file    *)
(*   WalkSpec      the superclass walk of the projections, turn by turn    *)
(*   WidthSpec     32-bit lengths, counts and sizes at the ends of their   *)
(*                 range                                                   *)
(* A specification leaves the variables of the others at their initial     *)
(* values.                                                                 *)
(***************************************************************************)
EXTENDS Integers, Sequences, FiniteSets, TLC

VARIABLES
    \* ---- the store: package-level maps of class.go:744-759
    ClassObjectIdToClassDumpMap,      \* class id -> ClassDump
    ObjectIdToInstanceDumpMap,        \* object id -> InstanceDump
    ObjectIdToObjectArrayDumpMap,     \* object id -> ObjectArrayDump
    ObjectIdToPrimitiveArrayDumpMap,  \* object id -> PrimitiveArrayDump
    IDtoSizeClassDump,                \* class id -> int64 (sizeClasses table)
    ClassObjectIdToCountInstances,    \* class id -> int32 (countInstances table)
    IDtoStringInUTF8,                 \* string id -> bytes
    ClassObjectIdToClassNameID,       \* class id -> string id of its name
    \* ---- CalculateClassSizes (class.go:1012-1077)
    phase,          \* position in CalculateClassSizes
    classesLeft,    \* classes the outer range loop has not reached yet
    curClass,       \* classObjectId of the running iteration
    visited,        \* visited map of the running iteration (set of ids)
    queue,          \* queue slice of the running iteration
    totalSize,      \* totalSize of the running iteration (int32)
    result,         \* the returned map: class id -> TotalSize
    visitedOf,      \* history: the visited set each class's iteration ended with
    enqueued,       \* history: how often each id was appended to the queue in
                    \* the running iteration (bag as a function)
    steps,          \* history: the steps CalculateClassSizes has taken
    walked,         \* history: the classes in the order the outer loop met them,
                    \* each with the instance the range over the map met first
    returned,       \* history: what each call of CalculateClassSizes returned
    \* ---- the HTTP handler of package web and the dump it is asked for
    dump,           \* what the dump file holds: its heap-dump sub-records
                    \* (IngestSpec, WebSpec) or its strings (DecodeSpec)
    handlers,       \* goroutine -> position and locals of the handler
    requests,       \* number of requests accepted so far
    afterDecode,    \* history: the store as each decode left it
    written,        \* history: how often each key of a store map was written
    \* ---- a dump file under readHeader / readRecord
    file,           \* the bytes of the file
    fileOffset,     \* the read position of the open file
    program,        \* "ParseHeapDump" (class.go) or "dumpFile" (package cmd)
    reader,         \* position of the program: "header", "records", or how
                    \* the record loop ended
    header,         \* the header the program has read
    delivered,      \* history: the records the record loop was handed
    printed,        \* the strings dumpFile has printed
    \* ---- processStackDump (package cmd) over the records of a dump
    builder,        \* which BuildThreadStacks the command is built with
    stage,          \* position in processStackDump
    nextRecord,     \* index of the record ProcessRecords reads next
    stackTraces,    \* ProcessRecords: the StackTrace records, in file order
    stackFrames,    \* ProcessRecords: the StackFrame records, in file order
    startThreads,   \* ProcessRecords: the StartThread records, in file order
    endThreads,     \* ProcessRecords: the EndThread records, in file order
    threadStatus,   \* map[int32]bool of processStackDump
    threadStacks,   \* the []ThreadStack BuildThreadStacks returned
    \* ---- an analysis run over a decoded store
    analysis,       \* the analysis that has run, "none" before
    output,         \* the Body of the AnalyzeResult it returned
    \* ---- the interactive session of dumpFile and the command of a request
    session,        \* position in dumpFile after ParseHeapDump
    com,            \* the variable com of dumpFile
    entered,        \* history: what the user entered at which prompt
    cliRan,         \* history: the analyses dumpFile has run
    httpRan,        \* history: what the HTTP handler answered to a command
    \* ---- the heap-dump records of a file under the sub-record loops
    records,        \* the payloads of the heap-dump records, in file order
    current,        \* index of the record the record loop has reached
    subReader,      \* the bytes.Reader over the payload of that record
    loop,           \* position of the program in its loops
    decoded,        \* history: the sub-records decoded, with where they
                    \* started and whether their bytes were all there
    unknownAt,      \* history: where an unknown sub-tag was met
    errors,         \* the errors the program has returned or printed
    \* ---- ExtractCallStackRecords over an open file
    readAt,         \* history: the read positions readRecord was called at
    \* ---- the superclass walk of an instance projection
    walker,         \* the function that walks, "none" before
    walkAt,         \* "off", "loop" inside the for loop, "done" behind it
    walkClassId,    \* the local currentClassId
    walkFields,     \* the local allFields
    walkTurns       \* history: the turns of the loop taken so far

closureVars == <<phase, classesLeft, curClass, visited, queue, totalSize,
                 result, visitedOf, enqueued, steps, walked, returned>>
storeVars == <<ClassObjectIdToClassDumpMap, ObjectIdToInstanceDumpMap,
               ObjectIdToObjectArrayDumpMap, ObjectIdToPrimitiveArrayDumpMap,
               IDtoSizeClassDump, ClassObjectIdToCountInstances,
               IDtoStringInUTF8, ClassObjectIdToClassNameID>>

webVars == <<dump, handlers, requests, afterDecode, written>>
fileVars == <<file, fileOffset, program, reader, header, delivered, printed>>

stackVars == <<builder, stage, nextRecord, stackTraces, stackFrames,
               startThreads, endThreads, threadStatus, threadStacks>>

analysisVars == <<analysis, output>>

sessionVars == <<session, com, entered, cliRan, httpRan>>

segmentVars == <<records, current, subReader, loop, decoded, unknownAt, errors>>

extractVars == <<readAt>>

walkVars == <<walker, walkAt, walkClassId, walkFields, walkTurns>>

vars == <<storeVars, closureVars, webVars, fileVars, stackVars, analysisVars,
         sessionVars, segmentVars, extractVars, walkVars>>

-----------------------------------------------------------------------------
(* Bounds of the model *)

\* the object ids 1..MaxObjects hold an object out of ObjectMenu or none
MaxObjects == 2
\* the number of elements of a stored object array
MaxElements == 3

-----------------------------------------------------------------------------
(* The values the variables of a part have while another part runs *)

\* the goroutines net/http serves requests on
Handlers == {1, 2}

\* a goroutine that serves no request
IdleHandler == [pc |-> "idle", pos |-> 0, op |-> 0, tmp |-> 0, cmd |-> 0,
                report |-> <<>>]

\* CalculateClassSizes is not running
ClosureIdle ==
    /\ phase = "off"
    /\ classesLeft = {}
    /\ curClass = 0
    /\ visited = {}
    /\ queue = <<>>
    /\ totalSize = 0
    /\ result = <<>>
    /\ visitedOf = <<>>
    /\ enqueued = <<>>
    /\ steps = 0
    /\ walked = <<>>
    /\ returned = <<>>

\* no request has been made
WebIdle ==
    /\ dump = <<>>
    /\ handlers = [h \in Handlers |-> IdleHandler]
    /\ requests = 0
    /\ afterDecode = <<>>
    /\ written = <<>>

\* no file is open
FileIdle ==
    /\ file = <<>>
    /\ fileOffset = 0
    /\ program = "none"
    /\ reader = "off"
    /\ header = [kind |-> "nil"]
    /\ delivered = <<>>
    /\ printed = <<>>

\* processStackDump is not running
StackIdle ==
    /\ builder = "none"
    /\ stage = "off"
    /\ nextRecord = 0
    /\ stackTraces = <<>>
    /\ stackFrames = <<>>
    /\ startThreads = <<>>
    /\ endThreads = <<>>
    /\ threadStatus = <<>>
    /\ threadStacks = <<>>

\* no analysis has run
AnalysisIdle ==
    /\ analysis = "none"
    /\ output = <<>>

\* no session is open and no command was requested
SessionIdle ==
    /\ session = "off"
    /\ com = 0
    /\ entered = <<>>
    /\ cliRan = <<>>
    /\ httpRan = <<>>

\* no heap-dump record is being decoded
SegmentIdle ==
    /\ records = <<>>
    /\ current = 0
    /\ subReader = [data |-> <<>>, pos |-> 0, short |-> FALSE]
    /\ loop = "off"
    /\ decoded = <<>>
    /\ unknownAt = <<>>
    /\ errors = <<>>

\* ExtractCallStackRecords is not running
ExtractIdle ==
    /\ readAt = <<>>

\* no superclass chain is being walked
WalkIdle ==
    /\ walker = "none"
    /\ walkAt = "off"
    /\ walkClassId = 0
    /\ walkFields = <<>>
    /\ walkTurns = 0

\* the store of a process that has decoded nothing (class.go:744-759)
EmptyStore ==
    /\ ClassObjectIdToClassDumpMap = <<>>
    /\ ObjectIdToInstanceDumpMap = <<>>
    /\ ObjectIdToObjectArrayDumpMap = <<>>
    /\ ObjectIdToPrimitiveArrayDumpMap = <<>>
    /\ IDtoSizeClassDump = <<>>
    /\ ClassObjectIdToCountInstances = <<>>
    /\ IDtoStringInUTF8 = <<>>
    /\ ClassObjectIdToClassNameID = <<>>

-----------------------------------------------------------------------------
(* Basic types: class.go:36-63 *)

Object == 2
Boolean == 4
Char == 5
Float == 6
Double == 7
Byte == 8
Short == 9
IntType == 10
Long == 11

\* func (bt BasicType) GetSize() int32
GetSize(bt) ==
    CASE bt \in {Boolean, Byte} -> 1
      [] bt \in {Short, Char} -> 2
      [] bt \in {Float, IntType} -> 4
      [] bt \in {Double, Long, Object} -> 8
      [] OTHER -> 0

ArrayHeaderSize == 16

MaxInt32 == 2147483647

\* int32 addition of two int32 values, wrapping as Go's += on int32 does
AddInt32(a, b) ==
    IF a > 0 /\ b > MaxInt32 - a
        THEN ((a - MaxInt32) - 1) + ((b - MaxInt32) - 1)
    ELSE IF a < 0 /\ b < ((0 - MaxInt32) - 1) - a
        THEN ((a + MaxInt32) + 1) + ((b + MaxInt32) + 1)
    ELSE a + b

RECURSIVE MulInt32(_, _)
\* int32 multiplication of an int32 value by a width of GetSize, 0 to 8,
\* wrapping as Go's * on int32 does
MulInt32(a, w) == IF w = 0 THEN 0 ELSE AddInt32(MulInt32(a, w - 1), a)

-----------------------------------------------------------------------------
(* Bytes *)

RECURSIVE BigEndian(_)
\* binary.BigEndian.Uint64 / Uint32 of a byte slice, most significant first
BigEndian(b) ==
    IF b = <<>> THEN 0
    ELSE BigEndian(SubSeq(b, 1, Len(b) - 1)) * 256 + b[Len(b)]

Zeros(n) == [i \in 1..n |-> 0]

\* int32(binary.BigEndian.Uint32(b)): the four bytes as a signed number
Int32Of(b) ==
    IF b[1] >= 128
        THEN ((BigEndian(<<b[1] - 128>> \o Tail(b)) - MaxInt32) - 1)
        ELSE BigEndian(b)

\* the 8 bytes of an identifier, as the dump writer stores it
Id8(id) == <<0, 0, 0, 0, 0, 0, 0, id>>

-----------------------------------------------------------------------------
(* The objects of the store: class.go:1079-1145 *)

Nil == [kind |-> "nil"]

\* func getObject(objectId ID) interface{}
getObject(objectId) ==
    IF objectId \in DOMAIN ObjectIdToInstanceDumpMap
        THEN [kind |-> "InstanceDump", v |-> ObjectIdToInstanceDumpMap[objectId]]
    ELSE IF objectId \in DOMAIN ObjectIdToObjectArrayDumpMap
        THEN [kind |-> "ObjectArrayDump", v |-> ObjectIdToObjectArrayDumpMap[objectId]]
    ELSE IF objectId \in DOMAIN ObjectIdToPrimitiveArrayDumpMap
        THEN [kind |-> "PrimitiveArrayDump", v |-> ObjectIdToPrimitiveArrayDumpMap[objectId]]
    ELSE Nil

\* case ObjectArrayDump of getObjectSize: the reference width is the literal 8
ObjectArraySize(a) == AddInt32(ArrayHeaderSize, MulInt32(a.NumberOfElements, 8))

\* func getObjectSize(obj interface{}) int32
getObjectSize(obj) ==
    CASE obj.kind = "InstanceDump" -> obj.v.NumberOfBytes
      [] obj.kind = "ObjectArrayDump" -> ObjectArraySize(obj.v)
      [] obj.kind = "PrimitiveArrayDump" ->
            AddInt32(ArrayHeaderSize,
                     MulInt32(obj.v.NumberOfElements, GetSize(obj.v.ElementType)))
      [] OTHER -> 0

RECURSIVE allFieldsFrom(_, _)
\* the first loop of parseInstanceReferences: the fields of the class chain,
\* each superclass's fields put in front of what was collected so far.  On a
\* cyclic chain the Go loop does not end, and neither does this recursion.
allFieldsFrom(currentClassId, allFields) ==
    IF currentClassId \notin DOMAIN ClassObjectIdToClassDumpMap THEN allFields
    ELSE LET classDump == ClassObjectIdToClassDumpMap[currentClassId]
             collected == classDump.InstanceFields \o allFields
         IN IF classDump.SuperClassObjectId = 0 THEN collected
            ELSE allFieldsFrom(classDump.SuperClassObjectId, collected)

RECURSIVE refsOfFields(_, _, _, _)
\* the second loop of parseInstanceReferences, from field index i at `offset`
refsOfFields(fields, i, offset, values) ==
    IF i > Len(fields) THEN <<>>
    ELSE IF fields[i].Type = Object
        THEN IF offset + 8 > Len(values) THEN <<>>      \* break
             ELSE <<BigEndian(SubSeq(values, offset + 1, offset + 8))>>
                  \o refsOfFields(fields, i + 1, offset + GetSize(fields[i].Type), values)
    ELSE refsOfFields(fields, i + 1, offset + GetSize(fields[i].Type), values)

RECURSIVE bytesReadOfFields(_, _, _, _)
\* the indices (from 0) of the payload bytes the second loop of
\* parseInstanceReferences reads, instance.InstanceFieldValues[start:end]
\* of every field of type object it gets to, from field index i at `offset`
bytesReadOfFields(fields, i, offset, values) ==
    IF i > Len(fields) THEN {}
    ELSE IF fields[i].Type = Object
        THEN IF offset + 8 > Len(values) THEN {}        \* break
             ELSE (offset .. (offset + 8 - 1))
                  \cup bytesReadOfFields(fields, i + 1,
                           offset + GetSize(fields[i].Type), values)
    ELSE bytesReadOfFields(fields, i + 1, offset + GetSize(fields[i].Type), values)

RECURSIVE offsetAfterReferences(_, _, _, _)
\* a mutant of offsetAfterFields: the offset moves on past the fields of
\* type object only
offsetAfterReferences(fields, i, offset, values) ==
    IF i > Len(fields) THEN offset
    ELSE IF fields[i].Type = Object /\ offset + 8 > Len(values) THEN offset
    ELSE offsetAfterReferences(fields, i + 1,
             offset + (IF fields[i].Type = Object THEN 8 ELSE 0), values)

RECURSIVE offsetAfterFields(_, _, _, _)
\* the local `offset` of parseInstanceReferences when its second loop ends,
\* from field index i at `offset`: the payload bytes the loop has walked
offsetAfterFields(fields, i, offset, values) ==
    IF i > Len(fields) THEN offset
    ELSE IF fields[i].Type = Object /\ offset + 8 > Len(values) THEN offset   \* break
    ELSE offsetAfterFields(fields, i + 1, offset + GetSize(fields[i].Type), values)

\* func parseInstanceReferences(instance InstanceDump) []ID
parseInstanceReferences(instance) ==
    refsOfFields(allFieldsFrom(instance.ClassObjectId, <<>>), 1, 0,
                 instance.InstanceFieldValues)

\* func getReferences(obj interface{}) []ID
getReferences(obj) ==
    CASE obj.kind = "InstanceDump" -> parseInstanceReferences(obj.v)
      [] obj.kind = "ObjectArrayDump" -> obj.v.Elements
      [] OTHER -> <<>>

-----------------------------------------------------------------------------
(* CalculateClassSizes: class.go:1012-1077 *)

\* bag union of one more append of id to the queue
CountAppend(bag, id) ==
    [x \in DOMAIN bag \cup {id} |->
        (IF x \in DOMAIN bag THEN bag[x] ELSE 0) + (IF x = id THEN 1 ELSE 0)]

\* a mutant of visit: the visited test is dropped, every reference is taken
visitAlways(st, refId) ==
    LET obj == getObject(refId)
    IN [visited |-> st.visited \cup {refId},
        queue |-> Append(st.queue, refId),
        totalSize |-> IF obj.kind # "nil"
                        THEN AddInt32(st.totalSize, getObjectSize(obj))
                        ELSE st.totalSize,
        enqueued |-> CountAppend(st.enqueued, refId)]

\* the body both reference loops share (class.go:1034-1041 and 1057-1064):
\* skip a visited id, else mark it, append it to the queue and add its size
visit(st, refId) ==
    IF refId \in st.visited THEN st
    ELSE LET obj == getObject(refId)
         IN [visited |-> st.visited \cup {refId},
             queue |-> Append(st.queue, refId),
             totalSize |-> IF obj.kind # "nil"
                             THEN AddInt32(st.totalSize, getObjectSize(obj))
                             ELSE st.totalSize,
             enqueued |-> CountAppend(st.enqueued, refId)]

RECURSIVE visitAll(_, _)
\* for _, refId := range refs { ... }
visitAll(st, refs) ==
    IF refs = <<>> THEN st
    ELSE visitAll(visit(st, Head(refs)), Tail(refs))

\* the instance loop's body (class.go:1021-1028)
seedInstance(st, classObjectId, objId) ==
    LET instance == ObjectIdToInstanceDumpMap[objId]
    IN IF instance.ClassObjectId # classObjectId \/ objId \in st.visited THEN st
       ELSE [visited |-> st.visited \cup {objId},
             queue |-> Append(st.queue, objId),
             totalSize |-> AddInt32(st.totalSize,
                             getObjectSize([kind |-> "InstanceDump", v |-> instance])),
             enqueued |-> CountAppend(st.enqueued, objId)]

RECURSIVE seedInstances(_, _, _)
\* for objId, instance := range ObjectIdToInstanceDumpMap, in the order `order`
seedInstances(st, classObjectId, order) ==
    IF order = <<>> THEN st
    ELSE seedInstances(seedInstance(st, classObjectId, Head(order)),
                       classObjectId, Tail(order))

\* a mutant of seedStatic: the width of a reference-typed static field is added too
seedStaticWithRefWidth(st, sf) ==
    IF sf.Type = Object
        THEN LET v == visit(st, BigEndian(sf.Value))
             IN [v EXCEPT !.totalSize = AddInt32(v.totalSize, GetSize(sf.Type))]
        ELSE [st EXCEPT !.totalSize = AddInt32(st.totalSize, GetSize(sf.Type))]

\* the static-field loop's body (class.go:1032-1044)
seedStatic(st, sf) ==
    IF sf.Type = Object
        THEN visit(st, BigEndian(sf.Value))
        ELSE [st EXCEPT !.totalSize = AddInt32(st.totalSize, GetSize(sf.Type))]

RECURSIVE seedStatics(_, _)
\* for _, sf := range classDump.StaticFields
seedStatics(st, fields) ==
    IF fields = <<>> THEN st
    ELSE seedStatics(seedStatic(st, Head(fields)), Tail(fields))

\* the iteration's locals as one record
Locals == [visited |-> visited, queue |-> queue, totalSize |-> totalSize,
           enqueued |-> enqueued]

SetLocals(st) ==
    /\ visited' = st.visited
    /\ queue' = st.queue
    /\ totalSize' = st.totalSize
    /\ enqueued' = st.enqueued

\* the orders in which range may walk a map with the keys `keys`
Orders(keys) ==
    {o \in [1..Cardinality(keys) -> keys] :
        \A i, j \in 1..Cardinality(keys) : i # j => o[i] # o[j]}

\* calls of CalculateClassSizes in a behaviour
MaxCalls == 2

\* a mutant of freshLocals: the visited map is made once, before the loop
\* over the classes
keptVisited(st) ==
    [visited |-> st.visited, queue |-> <<>>, totalSize |-> 0,
     enqueued |-> st.enqueued]

\* visited := make(map[ID]bool); queue := make([]ID, 0); var totalSize int32
freshLocals(st) ==
    [visited |-> {}, queue |-> <<>>, totalSize |-> 0, enqueued |-> <<>>]

\* the outer loop reaches a class: visited, queue and totalSize are made anew
NextClass ==
    /\ phase = "range"
    /\ steps' = steps + 1
    /\ \E classObjectId \in classesLeft :
          /\ curClass' = classObjectId
          /\ classesLeft' = classesLeft \ {classObjectId}
          /\ walked' = Append(walked, [class |-> classObjectId, first |-> 0])
    /\ SetLocals(freshLocals(Locals))
    /\ phase' = "instances"
    /\ UNCHANGED <<returned, result, visitedOf,
                   storeVars, webVars, fileVars, stackVars, analysisVars, sessionVars, segmentVars, extractVars, walkVars>>

\* for objId, instance := range ObjectIdToInstanceDumpMap { ... }
SeedInstances ==
    /\ phase = "instances"
    /\ steps' = steps + 1
    /\ \E order \in Orders(DOMAIN ObjectIdToInstanceDumpMap) :
          LET st == seedInstances(Locals, curClass, order)
          IN /\ SetLocals(st)
             /\ walked' = [walked EXCEPT ![Len(walked)].first =
                               IF st.queue = <<>> THEN 0 ELSE Head(st.queue)]
    /\ phase' = "statics"
    /\ UNCHANGED <<returned, classesLeft, curClass, result, visitedOf,
                   storeVars, webVars, fileVars, stackVars, analysisVars, sessionVars, segmentVars, extractVars, walkVars>>

\* for _, sf := range classDump.StaticFields { ... }
SeedStatics ==
    /\ phase = "statics"
    /\ steps' = steps + 1
    /\ SetLocals(seedStatics(Locals,
                    ClassObjectIdToClassDumpMap[curClass].StaticFields))
    /\ phase' = "queue"
    /\ UNCHANGED <<walked, returned, classesLeft, curClass, result, visitedOf,
                   storeVars, webVars, fileVars, stackVars, analysisVars, sessionVars, segmentVars, extractVars, walkVars>>

\* a mutant of dequeue: the queue is not advanced
dequeueNothing(q) == q

\* queue = queue[1:]
dequeue(q) == Tail(q)

\* one turn of `for len(queue) > 0`
Dequeue ==
    /\ phase = "queue"
    /\ steps' = steps + 1
    /\ Len(queue) > 0
    /\ LET currentId == Head(queue)
           rest == [Locals EXCEPT !.queue = dequeue(queue)]
           obj == getObject(currentId)
       IN IF obj.kind = "nil" THEN SetLocals(rest)
          ELSE SetLocals(visitAll(rest, getReferences(obj)))
    /\ UNCHANGED <<walked, returned, phase, classesLeft, curClass, result, visitedOf,
                   storeVars, webVars, fileVars, stackVars, analysisVars, sessionVars, segmentVars, extractVars, walkVars>>

\* the queue is empty: result[classObjectId] = ClassStats{..., totalSize}
StoreResult ==
    /\ phase = "queue"
    /\ steps' = steps + 1
    /\ Len(queue) = 0
    /\ result' = [c \in DOMAIN result \cup {curClass} |->
                    IF c = curClass THEN totalSize ELSE result[c]]
    /\ visitedOf' = [c \in DOMAIN visitedOf \cup {curClass} |->
                    IF c = curClass THEN visited ELSE visitedOf[c]]
    /\ phase' = "range"
    /\ UNCHANGED <<walked, returned, classesLeft, curClass, visited, queue, totalSize, enqueued,
                   storeVars, webVars, fileVars, stackVars, analysisVars, sessionVars, segmentVars, extractVars, walkVars>>

\* the outer loop has reached every class: return result
Return ==
    /\ phase = "range"
    /\ steps' = steps + 1
    /\ classesLeft = {}
    /\ phase' = "returned"
    /\ returned' = Append(returned, [result |-> result, visitedOf |-> visitedOf,
                                     walked |-> walked])
    /\ UNCHANGED <<walked, classesLeft, curClass, visited, queue, totalSize, enqueued,
                   result, visitedOf,
                   storeVars, webVars, fileVars, stackVars, analysisVars, sessionVars, segmentVars, extractVars, walkVars>>

\* CalculateClassSizes is called once more over the store as it is
CallAgain ==
    /\ phase = "returned"
    /\ Len(returned) < MaxCalls
    /\ phase' = "range"
    /\ classesLeft' = DOMAIN ClassObjectIdToClassDumpMap
    /\ curClass' = 0
    /\ SetLocals(freshLocals(Locals))
    /\ result' = <<>>
    /\ visitedOf' = <<>>
    /\ walked' = <<>>
    /\ steps' = 0
    /\ UNCHANGED <<returned, storeVars, webVars, fileVars, stackVars, analysisVars, sessionVars, segmentVars, extractVars, walkVars>>

ClosureNext ==
    \/ NextClass
    \/ SeedInstances
    \/ SeedStatics
    \/ Dequeue
    \/ StoreResult
    \/ Return
    \/ CallAgain

-----------------------------------------------------------------------------
(* The stores CalculateClassSizes is run over.                             *)
(* Class 10 extends class 11.  Class 11 declares one int field and one     *)
(* long static; class 10 declares one object field, so an instance of      *)
(* class 10 is 4 + 8 bytes: the inherited int, then the reference.  Each   *)
(* object id in 1..MaxObjects is absent or holds one object out of         *)
(* ObjectMenu: an instance of class 10 referring to r, an object array     *)
(* whose MaxElements elements all refer to r, or a char array.  The id     *)
(* LeafId always holds a 4-byte instance of class 11.  The static fields   *)
(* of class 10 come from StaticsMenu.                                      *)

LeafId == MaxObjects + 1

RefIds == 0..LeafId

ObjectMenu ==
    {[kind |-> "none"], [kind |-> "chars"]}
    \cup {[kind |-> "R", ref |-> r] : r \in RefIds}
    \cup {[kind |-> "objects", ref |-> r] : r \in RefIds}

StaticField(type, value) ==
    [Type |-> type,
     Value |-> IF type = Object THEN Id8(value) ELSE Zeros(GetSize(type))]

\* zeroStored: the store holds an instance under the id 0
StaticsMenu ==
    {[statics |-> <<>>, zeroStored |-> FALSE],
     [statics |-> <<StaticField(Object, 1), StaticField(Long, 0)>>,
      zeroStored |-> FALSE],
     [statics |-> <<StaticField(Object, 0), StaticField(IntType, 0)>>,
      zeroStored |-> FALSE],
     [statics |-> <<StaticField(Object, 0), StaticField(Object, 2),
                    StaticField(Object, 2)>>,
      zeroStored |-> TRUE]}

InstanceOf(classObjectId, values) ==
    [ClassObjectId |-> classObjectId, NumberOfBytes |-> Len(values),
     InstanceFieldValues |-> values]

ClassDumpsFor(cfg) ==
    (10 :> [SuperClassObjectId |-> 11, InstanceSize |-> 12,
            StaticFields |-> cfg.statics,
            InstanceFields |-> <<[Type |-> Object]>>])
    @@ (11 :> [SuperClassObjectId |-> 0, InstanceSize |-> 4,
               StaticFields |-> <<StaticField(Long, 0)>>,
               InstanceFields |-> <<[Type |-> IntType]>>])

InstancesFor(objs, cfg) ==
    LET ids == {i \in DOMAIN objs : objs[i].kind = "R"} \cup {LeafId}
              \cup (IF cfg.zeroStored THEN {0} ELSE {})
    IN [i \in ids |-> IF i \in DOMAIN objs
                        THEN InstanceOf(10, Zeros(4) \o Id8(objs[i].ref))
                        ELSE InstanceOf(11, Zeros(4))]

ObjectArraysFor(objs) ==
    [i \in {i \in DOMAIN objs : objs[i].kind = "objects"} |->
        [NumberOfElements |-> MaxElements, ArrayClassObjectId |-> 10,
         Elements |-> [e \in 1..MaxElements |-> objs[i].ref]]]

PrimitiveArraysFor(objs) ==
    [i \in {i \in DOMAIN objs : objs[i].kind = "chars"} |->
        [NumberOfElements |-> 2, ElementType |-> Char]]

ClosureInit ==
    /\ \E objs \in [1..MaxObjects -> ObjectMenu], cfg \in StaticsMenu :
          /\ ClassObjectIdToClassDumpMap = ClassDumpsFor(cfg)
          /\ ObjectIdToInstanceDumpMap = InstancesFor(objs, cfg)
          /\ ObjectIdToObjectArrayDumpMap = ObjectArraysFor(objs)
          /\ ObjectIdToPrimitiveArrayDumpMap = PrimitiveArraysFor(objs)
    /\ IDtoSizeClassDump = <<>>
    /\ ClassObjectIdToCountInstances = <<>>
    /\ IDtoStringInUTF8 = <<>>
    /\ ClassObjectIdToClassNameID = <<>>
    /\ phase = "range"
    /\ classesLeft = DOMAIN ClassObjectIdToClassDumpMap
    /\ curClass = 0
    /\ visited = {}
    /\ queue = <<>>
    /\ totalSize = 0
    /\ result = <<>>
    /\ visitedOf = <<>>
    /\ enqueued = <<>>
    /\ steps = 0
    /\ walked = <<>>
    /\ returned = <<>>
    /\ WebIdle
    /\ FileIdle
    /\ StackIdle
    /\ AnalysisIdle
    /\ WalkIdle
    /\ ExtractIdle
    /\ SegmentIdle
    /\ SessionIdle

ClosureSpec == ClosureInit /\ [][ClosureNext]_vars

-----------------------------------------------------------------------------
(* What the retained-size claims speak of *)

Range(f) == {f[i] : i \in DOMAIN f}

\* the instances of a class held in the store
InstancesOfClass(c) ==
    {i \in DOMAIN ObjectIdToInstanceDumpMap :
        ObjectIdToInstanceDumpMap[i].ClassObjectId = c}

\* the values of the reference-typed static fields of a class
StaticRefs(c) ==
    {BigEndian(sf.Value) :
        sf \in {f \in Range(ClassObjectIdToClassDumpMap[c].StaticFields) :
                    f.Type = Object}}

RECURSIVE ReachableFrom(_)
\* the least set holding S and every referent of a stored object in it
ReachableFrom(S) ==
    LET more == S \cup UNION {Range(getReferences(getObject(x))) : x \in S}
    IN IF more = S THEN S ELSE ReachableFrom(more)

RECURSIVE SumOfSizes(_)
\* the sizes of the stored objects among the ids S, each id once
SumOfSizes(S) ==
    IF S = {} THEN 0
    ELSE LET x == CHOOSE y \in S : TRUE
         IN getObjectSize(getObject(x)) + SumOfSizes(S \ {x})

RECURSIVE SumOfWidths(_, _)
\* the declared widths of the static fields of the sequence whose type is in T
SumOfWidths(fields, T) ==
    IF fields = <<>> THEN 0
    ELSE (IF Head(fields).Type \in T THEN GetSize(Head(fields).Type) ELSE 0)
         + SumOfWidths(Tail(fields), T)

BasicTypes == {Object, Boolean, Char, Float, Double, Byte, Short, IntType, Long}

\* the store of the object-array scenario: instance 1 of class 10 refers to
\* the object array 2, whose elements all refer to the 4-byte instance LeafId;
\* class 10 has no static field
ArrayScenario ==
    /\ MaxObjects >= 2
    /\ DOMAIN ObjectIdToInstanceDumpMap = {1, LeafId}
    /\ DOMAIN ObjectIdToObjectArrayDumpMap = {2}
    /\ DOMAIN ObjectIdToPrimitiveArrayDumpMap = {}
    /\ parseInstanceReferences(ObjectIdToInstanceDumpMap[1]) = <<2>>
    /\ Range(ObjectIdToObjectArrayDumpMap[2].Elements) = {LeafId}
    /\ ObjectIdToInstanceDumpMap[LeafId].NumberOfBytes = 4
    /\ ClassObjectIdToClassDumpMap[10].StaticFields = <<>>

\* C1: in CalculateClassSizes every id is appended to the queue at most
\* once, and exactly when it is marked visited; the visited set a class's
\* iteration ends with is the set of ids reachable from its seeds, and the
\* reported total counts the size of each visited object once (next to the
\* widths of the primitive static fields).  In the object-array scenario
\* visited = {R, array, I} and total = size(R) + 16 + MaxElements * 8 + 4.
C1_EachReachableObjectOnce ==
    /\ DOMAIN enqueued = visited
    /\ \A id \in DOMAIN enqueued : enqueued[id] = 1
    /\ \A c \in DOMAIN result :
          /\ visitedOf[c] = ReachableFrom(InstancesOfClass(c) \cup StaticRefs(c))
          /\ result[c] = SumOfSizes(visitedOf[c])
                + SumOfWidths(ClassObjectIdToClassDumpMap[c].StaticFields,
                              BasicTypes \ {Object})
    /\ (ArrayScenario /\ 10 \in DOMAIN result) =>
          /\ visitedOf[10] = {1, 2, LeafId}
          /\ result[10] = ObjectIdToInstanceDumpMap[1].NumberOfBytes
                            + 16 + MaxElements * 8 + 4

\* C1 witness: the scenario's class has been summed up, its leaf instance
\* having been met once for each element of the array
C1_Witness ==
    /\ ArrayScenario
    /\ 10 \in DOMAIN result
    /\ ObjectIdToObjectArrayDumpMap[2].NumberOfElements = MaxElements
    /\ MaxElements >= 3

\* every id a closure can meet: the stored ids, the static references and
\* all their referents
AllIds ==
    ReachableFrom(DOMAIN ObjectIdToInstanceDumpMap
                  \cup DOMAIN ObjectIdToObjectArrayDumpMap
                  \cup DOMAIN ObjectIdToPrimitiveArrayDumpMap
                  \cup UNION {StaticRefs(c) : c \in DOMAIN ClassObjectIdToClassDumpMap})

\* what is left of the queue loop: an appended id was unvisited before
QueueRank == 2 * Cardinality(AllIds \ visited) + Len(queue)

\* an upper bound of the steps CalculateClassSizes still takes
Rank ==
    LET perClass == 2 * Cardinality(AllIds) + 4
        outer == Cardinality(classesLeft) * perClass + 1
    IN CASE phase = "range" -> outer
         [] phase = "instances" -> outer + perClass - 1
         [] phase = "statics" -> outer + perClass - 2
         [] phase = "queue" -> outer + QueueRank + 1
         [] OTHER -> 0

\* the rank of the state CalculateClassSizes starts in
StartRank ==
    Cardinality(DOMAIN ClassObjectIdToClassDumpMap) * (2 * Cardinality(AllIds) + 4) + 1

C15_EveryCallReturnsTheSame ==
    \A i, j \in DOMAIN returned :
        /\ returned[i].result = returned[j].result
        /\ returned[i].visitedOf = returned[j].visitedOf
        /\ DOMAIN returned[i].result = DOMAIN ClassObjectIdToClassDumpMap

\* C15 witness: two calls have returned; they met the classes in different
\* orders and met a different instance of class 10 first, and an object of
\* the store is in the closure of both classes
C15_Witness ==
    /\ Len(returned) = 2
    /\ returned[1].walked[1].class # returned[2].walked[1].class
    /\ \E a \in DOMAIN returned[1].walked, b \in DOMAIN returned[2].walked :
          /\ returned[1].walked[a].class = 10
          /\ returned[2].walked[b].class = 10
          /\ returned[1].walked[a].first # returned[2].walked[b].first
    /\ returned[2].visitedOf[10] \cap returned[2].visitedOf[11] # {}

\* C26: the null identifier 0 is never a referent: it enters neither the
\* visited set nor the queue of the closure of any class.
C26_NullNeverVisited ==
    /\ 0 \notin visited
    /\ 0 \notin Range(queue)

-----------------------------------------------------------------------------
(* ParseHeapDump as the HTTP handler calls it: web.Execute (package web)   *)
(* and the sub-record loop of class.go:819-858.                            *)
(* The handler runs in a goroutine of its own per connection, opens the    *)
(* file the request names, calls ParseHeapDump and then the analysis the   *)
(* request asks for.  The dump file holds one heap-dump record; `dump` is  *)
(* the sequence of its sub-records.  A write to a package-level map is two *)
(* steps, the map access and the store, so that the accesses of two        *)
(* goroutines can overlap as they do without a lock.                       *)

\* requests accepted in a behaviour
MaxRequests == 2
\* sub-records in the dump file
MaxSubRecords == 2
\* the option of a request: how many table rows the analysis prints
TopN == 2

\* m[k], the zero value when k is no key
Load(m, k) == IF k \in DOMAIN m THEN m[k] ELSE 0

\* m[k] = v
Put(m, k, v) == [x \in DOMAIN m \cup {k} |-> IF x = k THEN v ELSE m[x]]

\* the package-level maps as one record
Store ==
    [ClassObjectIdToClassDumpMap |-> ClassObjectIdToClassDumpMap,
     ObjectIdToInstanceDumpMap |-> ObjectIdToInstanceDumpMap,
     ObjectIdToObjectArrayDumpMap |-> ObjectIdToObjectArrayDumpMap,
     ObjectIdToPrimitiveArrayDumpMap |-> ObjectIdToPrimitiveArrayDumpMap,
     IDtoSizeClassDump |-> IDtoSizeClassDump,
     ClassObjectIdToCountInstances |-> ClassObjectIdToCountInstances,
     IDtoStringInUTF8 |-> IDtoStringInUTF8,
     ClassObjectIdToClassNameID |-> ClassObjectIdToClassNameID]

SetStore(s) ==
    /\ ClassObjectIdToClassDumpMap' = s.ClassObjectIdToClassDumpMap
    /\ ObjectIdToInstanceDumpMap' = s.ObjectIdToInstanceDumpMap
    /\ ObjectIdToObjectArrayDumpMap' = s.ObjectIdToObjectArrayDumpMap
    /\ ObjectIdToPrimitiveArrayDumpMap' = s.ObjectIdToPrimitiveArrayDumpMap
    /\ IDtoSizeClassDump' = s.IDtoSizeClassDump
    /\ ClassObjectIdToCountInstances' = s.ClassObjectIdToCountInstances
    /\ IDtoStringInUTF8' = s.IDtoStringInUTF8
    /\ ClassObjectIdToClassNameID' = s.ClassObjectIdToClassNameID

\* the map writes of the switch on subTag (class.go:834-853), in order.
\* IDtoClassLoaderID[classObjectId] is written next to the class dump with
\* the same key and a field of the same value; the model keeps the class dump.
subRecordWrites(rec) ==
    CASE rec.tag = "InstanceDump" ->
            <<[map |-> "IDtoSizeClassDump", op |-> "add",
               key |-> rec.v.ClassObjectId, val |-> rec.v.NumberOfBytes],
              [map |-> "ClassObjectIdToCountInstances", op |-> "add",
               key |-> rec.v.ClassObjectId, val |-> 1],
              [map |-> "ObjectIdToInstanceDumpMap", op |-> "put",
               key |-> rec.v.ObjectId, val |-> rec.v]>>
      [] rec.tag = "ClassDump" ->
            <<[map |-> "IDtoSizeClassDump", op |-> "add",
               key |-> rec.v.ClassObjectId, val |-> rec.v.InstanceSize],
              [map |-> "ClassObjectIdToClassDumpMap", op |-> "put",
               key |-> rec.v.ClassObjectId, val |-> rec.v]>>
      [] rec.tag = "ObjectArrayDump" ->
            <<[map |-> "ObjectIdToObjectArrayDumpMap", op |-> "put",
               key |-> rec.v.ArrayObjectId, val |-> rec.v]>>
      [] rec.tag = "PrimitiveArrayDump" ->
            <<[map |-> "ObjectIdToPrimitiveArrayDumpMap", op |-> "put",
               key |-> rec.v.ArrayObjectId, val |-> rec.v]>>
      [] OTHER -> <<>>

\* the rows of a table, largest value first (sort.Slice over a map's
\* entries: rows of equal value come in any order)
SortedRows(tbl) ==
    {s \in [1..Cardinality(DOMAIN tbl) -> DOMAIN tbl] :
        /\ \A i, j \in DOMAIN s : i # j => s[i] # s[j]
        /\ \A i, j \in DOMAIN s : i < j => tbl[s[i]] >= tbl[s[j]]}

Min(a, b) == IF a < b THEN a ELSE b

\* a line of a Body that make([]string, max) has created and no row has
\* filled: the empty string
EmptyLine == [line |-> ""]

\* func PrintSizeClasses(max int) AnalyzeResult: the bodies it may return.
\* Body has max lines; the rows fill the first of them.
PrintSizeClasses(max) ==
    {[i \in 1..max |-> IF i <= Len(s)
                          THEN [id |-> s[i], size |-> IDtoSizeClassDump[s[i]]]
                          ELSE EmptyLine] :
        s \in SortedRows(IDtoSizeClassDump)}

\* func PrintCountInstances(max int) AnalyzeResult: the bodies it may return
PrintCountInstances(max) ==
    {[i \in 1..max |-> IF i <= Len(s)
                          THEN [id |-> s[i],
                                count |-> ClassObjectIdToCountInstances[s[i]]]
                          ELSE EmptyLine] :
        s \in SortedRows(ClassObjectIdToCountInstances)}

\* the sub-record the handler's decode has reached
AtSubRecord(h) ==
    /\ handlers[h].pc \in {"decode", "write"}
    /\ handlers[h].pos <= Len(dump)

\* the map write the handler's decode has reached
CurrentWrite(h) == subRecordWrites(dump[handlers[h].pos])[handlers[h].op]

\* the goroutine is inside a write to the map m
Writing(h, m) == handlers[h].pc = "write" /\ CurrentWrite(h).map = m

\* the goroutine is inside the reads that follow the decode: the tables
\* ParseHeapDump prints (class.go:862-866) and the analysis of the request
Reading(h) == handlers[h].pc = "reading"

\* two goroutines are inside accesses to one map, one of them a write
Race ==
    \E h1, h2 \in Handlers :
        /\ h1 # h2
        /\ handlers[h1].pc = "write"
        /\ \/ Reading(h2)
           \/ Writing(h2, CurrentWrite(h1).map)

\* a request with file, cmd and option arrives: os.Open, ParseHeapDump(f)
Request(h) ==
    /\ handlers[h].pc = "idle"
    /\ requests < MaxRequests
    /\ requests' = requests + 1
    /\ \E cmd \in {1, 2} :
          handlers' = [handlers EXCEPT ![h] =
                          [pc |-> "decode", pos |-> 1, op |-> 1, tmp |-> 0,
                           cmd |-> cmd, report |-> <<>>]]
    /\ UNCHANGED <<dump, afterDecode, written, storeVars, closureVars, fileVars, stackVars, analysisVars, sessionVars, segmentVars, extractVars, walkVars>>

\* the access half of a map write: m[k] is looked up
BeginWrite(h) ==
    /\ handlers[h].pc = "decode"
    /\ AtSubRecord(h)
    /\ handlers[h].op <= Len(subRecordWrites(dump[handlers[h].pos]))
    /\ LET w == CurrentWrite(h)
       IN handlers' = [handlers EXCEPT
                          ![h].pc = "write",
                          ![h].tmp = IF w.op = "add" THEN Load(Store[w.map], w.key)
                                     ELSE 0]
    /\ UNCHANGED <<dump, requests, afterDecode, written, storeVars, closureVars,
                   fileVars, stackVars, analysisVars, sessionVars, segmentVars, extractVars, walkVars>>

\* the store half of a map write: m[k] = v, m[k] += v, m[k]++
EndWrite(h) ==
    /\ handlers[h].pc = "write"
    /\ LET w == CurrentWrite(h)
           v == IF w.op = "add" THEN handlers[h].tmp + w.val ELSE w.val
           last == handlers[h].op = Len(subRecordWrites(dump[handlers[h].pos]))
       IN /\ SetStore([Store EXCEPT ![w.map] = Put(@, w.key, v)])
          /\ written' = IF w.op = "put" THEN CountAppend(written, <<w.map, w.key>>)
                        ELSE written
          /\ handlers' = [handlers EXCEPT
                            ![h].pc = "decode",
                            ![h].tmp = 0,
                            ![h].pos = IF last THEN @ + 1 ELSE @,
                            ![h].op = IF last THEN 1 ELSE @ + 1]
    /\ UNCHANGED <<dump, requests, afterDecode, closureVars, fileVars, stackVars, analysisVars, sessionVars, segmentVars, extractVars, walkVars>>

\* a root sub-record: `_ = readerFunction(reader)`, nothing is stored
SkipSubRecord(h) ==
    /\ handlers[h].pc = "decode"
    /\ AtSubRecord(h)
    /\ dump[handlers[h].pos].tag = "Root"
    /\ handlers' = [handlers EXCEPT ![h].pos = @ + 1]
    /\ UNCHANGED <<dump, requests, afterDecode, written, storeVars, closureVars,
                   fileVars, stackVars, analysisVars, sessionVars, segmentVars, extractVars, walkVars>>

\* the sub-record loop ends, at the end of the record or at an unknown
\* sub-tag (class.go:825-826, 854-857), and so does the record loop
EndDecode(h) ==
    /\ handlers[h].pc = "decode"
    /\ \/ handlers[h].pos > Len(dump)
       \/ /\ AtSubRecord(h)
          /\ dump[handlers[h].pos].tag = "Unknown"
    /\ handlers' = [handlers EXCEPT ![h].pc = "reading"]
    /\ afterDecode' = Append(afterDecode, Store)
    /\ UNCHANGED <<dump, requests, written, storeVars, closureVars, fileVars, stackVars, analysisVars, sessionVars, segmentVars, extractVars, walkVars>>

\* ParseHeapDump has printed its tables and returned; the analysis of the
\* request runs and the response is written
Respond(h) ==
    /\ handlers[h].pc = "reading"
    /\ \E body \in IF handlers[h].cmd = 1 THEN PrintSizeClasses(TopN)
                   ELSE PrintCountInstances(TopN) :
          handlers' = [handlers EXCEPT ![h].pc = "idle", ![h].report = body]
    /\ UNCHANGED <<dump, requests, afterDecode, written, storeVars, closureVars,
                   fileVars, stackVars, analysisVars, sessionVars, segmentVars, extractVars, walkVars>>

\* the runtime notices the overlapping map accesses: "fatal error:
\* concurrent map writes" or "concurrent map read and map write"; the
\* process ends.  It need not notice, so the other steps stay possible.
Throw ==
    /\ Race
    /\ handlers' = [h \in Handlers |-> [handlers[h] EXCEPT !.pc = "crashed"]]
    /\ UNCHANGED <<dump, requests, afterDecode, written, storeVars, closureVars,
                   fileVars, stackVars, analysisVars, sessionVars, segmentVars, extractVars, walkVars>>

\* the sub-records a dump file is made of.  Classes 10 and 11 are those of
\* ClassDumpsFor; an instance of class 10 holds 12 bytes, one of class 11 4.
SubRecordMenu ==
    {[tag |-> "ClassDump",
      v |-> [ClassObjectId |-> c] @@ ClassDumpsFor([statics |-> <<>>])[c]] :
        c \in {10, 11}}
    \cup {[tag |-> "InstanceDump",
           v |-> [ObjectId |-> o]
                 @@ InstanceOf(c, IF c = 10 THEN Zeros(4) \o Id8(0) ELSE Zeros(4))] :
            o \in {1, 2}, c \in {10, 11}}
    \cup {[tag |-> "ObjectArrayDump",
           v |-> [ArrayObjectId |-> 2, NumberOfElements |-> 1,
                  ArrayClassObjectId |-> 10, Elements |-> <<1>>]],
          [tag |-> "PrimitiveArrayDump",
           v |-> [ArrayObjectId |-> 2, NumberOfElements |-> 2,
                  ElementType |-> Char]],
          [tag |-> "Root"],
          [tag |-> "Unknown"]}

\* a process that has decoded nothing, and the dump file the requests name
IngestInit ==
    /\ EmptyStore
    /\ ClosureIdle
    /\ FileIdle
    /\ StackIdle
    /\ AnalysisIdle
    /\ WalkIdle
    /\ ExtractIdle
    /\ SegmentIdle
    /\ SessionIdle
    /\ dump \in UNION {[1..n -> SubRecordMenu] : n \in 0..MaxSubRecords}
    /\ handlers = [h \in Handlers |-> IdleHandler]
    /\ requests = 0
    /\ afterDecode = <<>>
    /\ written = <<>>

\* the requests arrive on one connection: one goroutine, one after the other
IngestNext ==
    \/ Request(1)
    \/ BeginWrite(1)
    \/ EndWrite(1)
    \/ SkipSubRecord(1)
    \/ EndDecode(1)
    \/ Respond(1)

IngestSpec == IngestInit /\ [][IngestNext]_vars

\* the requests arrive on two connections
WebNext ==
    \/ \E h \in Handlers : Request(h)
    \/ \E h \in Handlers : BeginWrite(h)
    \/ \E h \in Handlers : EndWrite(h)
    \/ \E h \in Handlers : SkipSubRecord(h)
    \/ \E h \in Handlers : EndDecode(h)
    \/ \E h \in Handlers : Respond(h)
    \/ Throw

WebSpec == IngestInit /\ [][WebNext]_vars

-----------------------------------------------------------------------------
(* What the ingest claims speak of *)

RECURSIVE SumOfInstanceBytes(_)
\* the sum of Instance.numberOfBytes over the stored instances with ids in S
SumOfInstanceBytes(S) ==
    IF S = {} THEN 0
    ELSE LET x == CHOOSE y \in S : TRUE
         IN ObjectIdToInstanceDumpMap[x].NumberOfBytes + SumOfInstanceBytes(S \ {x})

RECURSIVE SumOfTable(_)
\* the sum of the values of a table
SumOfTable(tbl) ==
    IF DOMAIN tbl = {} THEN 0
    ELSE LET k == CHOOSE y \in DOMAIN tbl : TRUE
         IN tbl[k] + SumOfTable([x \in DOMAIN tbl \ {k} |-> tbl[x]])

\* the first request has been answered and no other has been made
FirstAnswered(cmd) ==
    /\ requests = 1
    /\ handlers[1].pc = "idle"
    /\ handlers[1].cmd = cmd

\* C4 as stated: after the ingest of any sub-record sequence, the total
\* PrintSizeClasses reports for a class is the sum of NumberOfBytes over the
\* instances of that class held in the store, and nothing else.
C4_SizeIsSumOfInstanceBytes ==
    FirstAnswered(1) =>
        \A i \in DOMAIN handlers[1].report :
            handlers[1].report[i] # EmptyLine =>
                handlers[1].report[i].size =
                    SumOfInstanceBytes(InstancesOfClass(handlers[1].report[i].id))

\* C5 as stated: after the ingest of any sub-record sequence, one with a
\* repeated objectId included, the per-class instance counts add up to the
\* number of instances held in the store, and each store key was written once.
C5_CountsAddUpToStoredInstances ==
    (requests = 1 /\ Len(afterDecode) = 1) =>
        /\ SumOfTable(ClassObjectIdToCountInstances)
              = Cardinality(DOMAIN ObjectIdToInstanceDumpMap)
        /\ \A k \in DOMAIN written : written[k] = 1

\* C6 as stated: a second decode of the same file in the same process leaves
\* the store, the size table and the count table as the first decode left
\* them.
C6_SecondDecodeChangesNothing ==
    Len(afterDecode) >= 2 => afterDecode[2] = afterDecode[1]

\* C7 as stated: with requests served concurrently no goroutine is inside a
\* write to a store map while another goroutine's decode or analysis is in
\* progress, so no two accesses to a map overlap with one of them a write
\* (and the runtime never ends the process over one).
C7_NoAccessDuringAWrite ==
    /\ \A h1, h2 \in Handlers :
          (h1 # h2 /\ handlers[h1].pc = "write") => handlers[h2].pc = "idle"
    /\ ~Race
    /\ \A h \in Handlers : handlers[h].pc # "crashed"

-----------------------------------------------------------------------------
(* A dump file as bytes: readHeader, readRecord and the record loop of     *)
(* ParseHeapDump (class.go:409-469, 783-860), and dumpFile of package cmd  *)
(* with ReadHeader, ReadRecord and RecordUtf8.Init of package hprof.       *)
(* An identifier read from the bytes of a file is kept as its eight        *)
(* big-endian bytes: the value of eight arbitrary bytes is beyond the      *)
(* integers of the model checker, and the bytes stand for it one to one.   *)

\* bytes that follow the header in the files of FrameSpec
MaxBodyLen == 13
\* string records in the files of DecodeSpec
MaxStrings == 2

StringUtf8Tag == 1
UnloadClassTag == 3

\* "JAVA PROFILE 1.0.2"
hprofMark ==
    <<74, 65, 86, 65, 32, 80, 82, 79, 70, 73, 76, 69, 32, 49, 46, 48, 46, 50>>

\* io.ReadFull, and binary.Read of a fixed-size value: n bytes at off, or an
\* error: io.EOF when no byte is left, io.ErrUnexpectedEOF when too few are
ReadFull(f, off, n) ==
    LET k == Min(n, Len(f) - off)
    IN [n |-> k,
        data |-> SubSeq(f, off + 1, off + k),
        err |-> IF k = n THEN "nil" ELSE IF k = 0 THEN "EOF" ELSE "ErrUnexpectedEOF"]

\* (*os.File).Read into make([]byte, n): the bytes that are left, at most n,
\* the rest of the buffer staying zero; io.EOF only when none is left.  The
\* buffer is kept as the bytes read and the number of zero bytes after them.
FileRead(f, off, n) ==
    LET k == Min(n, Len(f) - off)
    IN [n |-> k,
        data |-> [read |-> SubSeq(f, off + 1, off + k), zeros |-> n - k],
        err |-> IF n > 0 /\ k = 0 THEN "EOF" ELSE "nil"]

\* the bytes of a buffer, and len(buffer)
BufferBytes(b) == b.read \o Zeros(b.zeros)

BufferLen(b) == Len(b.read) + b.zeros

\* func readHeader(file *os.File) HprofHeader; off is where it leaves the file
readHeader(f) ==
    LET magic == FileRead(f, 0, 19)
        size == ReadFull(f, magic.n, 4)
        high == ReadFull(f, magic.n + size.n, 4)
        low == ReadFull(f, magic.n + size.n + high.n, 4)
    IN IF magic.err # "nil"
           THEN [Magic |-> <<>>, IdentifierSize |-> 0, off |-> magic.n]
       ELSE IF size.err # "nil"
           THEN [Magic |-> BufferBytes(magic.data), IdentifierSize |-> 0,
                 off |-> magic.n + size.n]
       ELSE [Magic |-> BufferBytes(magic.data),
             IdentifierSize |-> BigEndian(size.data),
             off |-> magic.n + size.n + high.n
                     + (IF high.err = "nil" THEN low.n ELSE 0)]

\* func readRecord(file *os.File) (HprofRecord, error); Length is an int32
\* and make([]byte, record.Length) panics when it is negative
readRecord(f, off) ==
    LET tag == ReadFull(f, off, 1)
        time == ReadFull(f, off + 1, 4)
        length == ReadFull(f, off + 5, 4)
        data == FileRead(f, off + 9, Int32Of(length.data))
        none == [Tag |-> 0, Length |-> 0, Data |-> [read |-> <<>>, zeros |-> 0]]
    IN IF tag.err # "nil"
           THEN [err |-> tag.err, record |-> none, off |-> off + tag.n]
       ELSE IF time.err # "nil"
           THEN [err |-> time.err, record |-> [none EXCEPT !.Tag = tag.data[1]],
                 off |-> off + 1 + time.n]
       ELSE IF length.err # "nil"
           THEN [err |-> length.err, record |-> [none EXCEPT !.Tag = tag.data[1]],
                 off |-> off + 5 + length.n]
       ELSE IF Int32Of(length.data) < 0
           THEN [err |-> "panic",
                 record |-> [none EXCEPT !.Tag = tag.data[1],
                                         !.Length = Int32Of(length.data)],
                 off |-> off + 9]
       ELSE [err |-> data.err,
             record |-> [Tag |-> tag.data[1], Length |-> Int32Of(length.data),
                         Data |-> data.data],
             off |-> off + 9 + data.n]

\* func readStringInUTF8(data []byte) interface{}, for len(data) >= 8
readStringInUTF8(data) ==
    [StringId |-> SubSeq(data, 1, 8), Bytes |-> SubSeq(data, 9, Len(data))]

\* ParseHeapDump: header := readHeader(heapDumpFile); the header is printed
\* and the record loop follows, whatever the header holds
ReadHeaderStep ==
    /\ program = "ParseHeapDump"
    /\ reader = "header"
    /\ LET h == readHeader(file)
       IN /\ header' = [Magic |-> h.Magic, IdentifierSize |-> h.IdentifierSize]
          /\ fileOffset' = h.off
    /\ reader' = "records"
    /\ UNCHANGED <<file, program, delivered, printed, storeVars, closureVars,
                   webVars, stackVars, analysisVars, sessionVars, segmentVars, extractVars, walkVars>>

\* one turn of ParseHeapDump's record loop (class.go:788-860).  io.EOF ends
\* it with "Reached end of file."; any other error ends it, too, the value
\* of fmt.Errorf being dropped; a record is dispatched on its tag.  The
\* StringUtf8 case also writes StringUtf8Map under the same key; the model
\* keeps IDtoStringInUTF8.  The files of the model hold the tags 0, 1 and 3.
ReadRecordStep ==
    /\ program = "ParseHeapDump"
    /\ reader = "records"
    /\ LET r == readRecord(file, fileOffset)
       IN /\ fileOffset' = r.off
          /\ IF r.err = "EOF"
                THEN /\ reader' = "eof"
                     /\ UNCHANGED <<delivered, storeVars>>
             ELSE IF r.err # "nil"
                THEN /\ reader' = IF r.err = "panic" THEN "panic" ELSE "error"
                     /\ UNCHANGED <<delivered, storeVars>>
             ELSE /\ delivered' = Append(delivered, r.record)
                  /\ IF r.record.Tag = StringUtf8Tag /\ BufferLen(r.record.Data) < 8
                        THEN /\ reader' = "panic"
                             /\ UNCHANGED storeVars
                     ELSE IF r.record.Tag = StringUtf8Tag
                        THEN LET str == readStringInUTF8(BufferBytes(r.record.Data))
                             IN /\ SetStore([Store EXCEPT !.IDtoStringInUTF8 =
                                       Put(@, str.StringId, str.Bytes)])
                                /\ reader' = "records"
                     ELSE /\ reader' = "records"
                          /\ UNCHANGED storeVars
    /\ UNCHANGED <<file, program, header, printed, closureVars, webVars, stackVars, analysisVars, sessionVars, segmentVars, extractVars, walkVars>>

\* func IsHprofStart(data []byte) bool
IsHprofStart(data) ==
    /\ Len(data) >= 19
    /\ SubSeq(data, 1, 18) = hprofMark
    /\ data[19] = 0

\* func ReadHeader(rdr io.Reader) (*Header, error)
ReadHeader(f) ==
    LET b1 == ReadFull(f, 0, 19)
        idSize == ReadFull(f, 19, 4)
        ts == ReadFull(f, 23, 8)
    IN IF b1.err # "nil" THEN [err |-> b1.err, IdSize |-> 0, off |-> b1.n]
       ELSE IF ~IsHprofStart(b1.data)
           THEN [err |-> "it is not hprof dump", IdSize |-> 0, off |-> 19]
       ELSE IF idSize.err # "nil"
           THEN [err |-> idSize.err, IdSize |-> 0, off |-> 19 + idSize.n]
       ELSE IF ts.err # "nil"
           THEN [err |-> ts.err, IdSize |-> 0, off |-> 23 + ts.n]
       ELSE [err |-> "nil", IdSize |-> BigEndian(idSize.data), off |-> 31]

\* func ReadRecord(rdr io.Reader, header *Header) (*Record, []byte, error)
ReadRecord(f, off) ==
    LET tag == ReadFull(f, off, 1)
        tsd == ReadFull(f, off + 1, 4)
        rSize == ReadFull(f, off + 5, 4)
        blob == ReadFull(f, off + 9, BigEndian(rSize.data))
    IN IF tag.err # "nil"
           THEN [err |-> tag.err, Tag |-> 0, blob |-> <<>>, off |-> off + tag.n]
       ELSE IF tsd.err # "nil"
           THEN [err |-> tsd.err, Tag |-> 0, blob |-> <<>>, off |-> off + 1 + tsd.n]
       ELSE IF rSize.err # "nil"
           THEN [err |-> rSize.err, Tag |-> 0, blob |-> <<>>,
                 off |-> off + 5 + rSize.n]
       ELSE IF blob.err # "nil"
           THEN [err |-> blob.err, Tag |-> 0, blob |-> <<>>,
                 off |-> off + 9 + blob.n]
       ELSE [err |-> "nil", Tag |-> tag.data[1], blob |-> blob.data,
             off |-> off + 9 + blob.n]

\* func (r *Record) ReadId(rdr io.Reader) (uint64, error), rdr at the start
\* of blob: eight bytes when IdSize is 8, else the value 0 and nothing read
ReadId(IdSize, blob) ==
    IF IdSize = 8 /\ ReadFull(blob, 0, 8).err = "nil"
        THEN ReadFull(blob, 0, 8).data
        ELSE Zeros(8)

\* func (r *RecordUtf8) Init(blob []byte) error, for len(blob) >= 8
RecordUtf8Init(IdSize, blob) ==
    [Id |-> ReadId(IdSize, blob), Value |-> SubSeq(blob, 9, Len(blob))]

\* dumpFile: header, err := hprof.ReadHeader(f); an error is returned
DumpReadHeader ==
    /\ program = "dumpFile"
    /\ reader = "header"
    /\ LET h == ReadHeader(file)
       IN /\ fileOffset' = h.off
          /\ IF h.err # "nil"
                THEN /\ reader' = "rejected"
                     /\ UNCHANGED header
                ELSE /\ reader' = "records"
                     /\ header' = [IdSize |-> h.IdSize]
    /\ UNCHANGED <<file, program, delivered, printed, storeVars, closureVars,
                   webVars, stackVars, analysisVars, sessionVars, segmentVars, extractVars, walkVars>>

\* one turn of dumpFile's record loop: any error of ReadRecord, io.EOF
\* included, is returned; a string record is decoded and printed
DumpReadRecord ==
    /\ program = "dumpFile"
    /\ reader = "records"
    /\ LET r == ReadRecord(file, fileOffset)
       IN /\ fileOffset' = r.off
          /\ IF r.err # "nil"
                THEN /\ reader' = "error"
                     /\ UNCHANGED <<delivered, printed>>
             ELSE /\ delivered' = Append(delivered,
                        [Tag |-> r.Tag, Length |-> Len(r.blob),
                         Data |-> [read |-> r.blob, zeros |-> 0]])
                  /\ IF r.Tag = StringUtf8Tag /\ Len(r.blob) < 8
                        THEN /\ reader' = "panic"
                             /\ UNCHANGED printed
                     ELSE IF r.Tag = StringUtf8Tag
                        THEN /\ printed' = Append(printed,
                                     RecordUtf8Init(header.IdSize, r.blob))
                             /\ reader' = "records"
                     ELSE /\ reader' = "records"
                          /\ UNCHANGED printed
    /\ UNCHANGED <<file, program, header, storeVars, closureVars, webVars, stackVars, analysisVars, sessionVars, segmentVars, extractVars, walkVars>>

\* the 31 bytes of a header: magic, identifier size, timestamp
HeaderBytes(magic, idSize) == magic \o <<0, 0, 0, idSize>> \o Zeros(8)

ValidHeader == HeaderBytes(hprofMark \o <<0>>, 8)

\* a file has been opened and nothing read
Opened ==
    /\ EmptyStore
    /\ ClosureIdle
    /\ StackIdle
    /\ AnalysisIdle
    /\ WalkIdle
    /\ ExtractIdle
    /\ SegmentIdle
    /\ SessionIdle
    /\ handlers = [h \in Handlers |-> IdleHandler]
    /\ requests = 0
    /\ afterDecode = <<>>
    /\ written = <<>>
    /\ fileOffset = 0
    /\ reader = "header"
    /\ header = [kind |-> "nil"]
    /\ delivered = <<>>
    /\ printed = <<>>

\* ParseHeapDump over a valid header followed by any bytes out of the
\* tags 0 (no case of the switch) and 3 (UnloadClass, nothing stored)
FrameInit ==
    /\ Opened
    /\ program = "ParseHeapDump"
    /\ dump = <<>>
    /\ file \in {ValidHeader \o b :
                    b \in UNION {[1..n -> {0, UnloadClassTag}] : n \in 0..MaxBodyLen}}

FrameNext ==
    \/ ReadHeaderStep
    \/ ReadRecordStep

FrameSpec == FrameInit /\ [][FrameNext]_vars

\* the magic of a header: the right one, or one byte of it replaced
Magics ==
    {hprofMark \o <<0>>}
    \cup {[(hprofMark \o <<0>>) EXCEPT ![p] = 88] : p \in 1..19}

\* the identifier sizes a header declares
IdSizes == {4, 8, 0, 3, 16}

\* the strings a file holds: identifier and text
StringMenu ==
    {[id |-> i, text |-> t] : i \in {1, 2},
                              t \in {<<97, 98>>, <<97, 98, 99, 100, 101>>}}

\* the bytes of a string record whose identifier is w bytes wide
Utf8Record(w, str) ==
    <<StringUtf8Tag>> \o Zeros(4) \o <<0, 0, 0, w + Len(str.text)>>
    \o Zeros(w - 1) \o <<str.id>> \o str.text

RECURSIVE Utf8Records(_, _)
Utf8Records(w, strs) ==
    IF strs = <<>> THEN <<>>
    ELSE Utf8Record(w, Head(strs)) \o Utf8Records(w, Tail(strs))

\* ParseHeapDump or dumpFile over a header followed by string records; the
\* identifiers are as wide as the header declares (8 when it declares a
\* width that does not exist)
DecodeInit ==
    /\ Opened
    /\ program \in {"ParseHeapDump", "dumpFile"}
    /\ dump \in UNION {[1..n -> StringMenu] : n \in 0..MaxStrings}
    /\ \E magic \in Magics, idSize \in IdSizes :
          file = HeaderBytes(magic, idSize)
                 \o Utf8Records(IF idSize \in {4, 8} THEN idSize ELSE 8, dump)

DecodeNext ==
    \/ ReadHeaderStep
    \/ ReadRecordStep
    \/ DumpReadHeader
    \/ DumpReadRecord

DecodeSpec == DecodeInit /\ [][DecodeNext]_vars

-----------------------------------------------------------------------------
(* What the framing, identifier and header claims speak of *)

RECURSIVE Consumed(_)
\* the bytes of the file the records handed to the record loop took
Consumed(recs) ==
    IF recs = <<>> THEN 0
    ELSE 9 + Len(Head(recs).Data.read) + Consumed(Tail(recs))

\* the identifier size the header of the file declares
DeclaredIdSize == BigEndian(SubSeq(file, 20, 23))

\* the header of the file is one the format allows
HeaderIsValid ==
    /\ IsHprofStart(SubSeq(file, 1, 19))
    /\ DeclaredIdSize \in {4, 8}

\* an identifier zero-extended to 64 bits
ZeroExtended(id) == Zeros(7) \o <<id>>

\* C8 as stated: the record loop ends with a clean end of file only when
\* the file ends exactly where a record would begin, and no record reaches
\* the loop with fewer payload bytes from the file than its length field
\* says; a file that ends anywhere else ends the loop with an error.
C8_CleanEofOnlyAtRecordBoundary ==
    /\ reader = "eof" => Len(ValidHeader) + Consumed(delivered) = Len(file)
    /\ \A i \in DOMAIN delivered :
          /\ delivered[i].Data.zeros = 0
          /\ Len(delivered[i].Data.read) = delivered[i].Length

\* C9 as stated: under a valid header that declares the width W (4 or 8),
\* every decoder reads an identifier as W bytes and yields the stored value
\* zero-extended: the strings ParseHeapDump stores and the strings dumpFile
\* prints are the strings of the file, each under its identifier.
C9_IdentifiersReadAtDeclaredWidth ==
    HeaderIsValid =>
        /\ reader # "panic"
        /\ (program = "ParseHeapDump" /\ reader \in {"eof", "error"}) =>
              /\ \A i \in DOMAIN dump :
                    ZeroExtended(dump[i].id) \in DOMAIN IDtoStringInUTF8
              /\ \A k \in DOMAIN IDtoStringInUTF8 :
                    \E i \in DOMAIN dump :
                        /\ k = ZeroExtended(dump[i].id)
                        /\ IDtoStringInUTF8[k] = dump[i].text
        /\ program = "dumpFile" =>
              \A i \in DOMAIN printed :
                  printed[i] = [Id |-> ZeroExtended(dump[i].id),
                                Value |-> dump[i].text]

\* C10 as stated: a file whose header has a wrong magic or declares an
\* identifier size other than 4 and 8 is rejected before a record is
\* decoded, and the store stays empty.
C10_InvalidHeaderRejected ==
    ~HeaderIsValid =>
        /\ reader \in {"header", "rejected"}
        /\ delivered = <<>>
        /\ printed = <<>>
        /\ IDtoStringInUTF8 = <<>>

-----------------------------------------------------------------------------
(* processStackDump of package cmd (stack.go:138-175): ProcessRecords      *)
(* (parser.go:27-97) sorts the records of the file into one slice per      *)
(* kind, the thread status map is derived from the StartThread and the     *)
(* EndThread slices, and BuildThreadStacks makes one ThreadStack per stack *)
(* trace.  `dump` is the sequence of the records of the file.  The         *)
(* repository holds two BuildThreadStacks that take a status map:          *)
(* stack_frame.go:16-57 and the three-parameter one of part_008:63-82.     *)

\* records in the file processStackDump is given
MaxStackRecords == 3

\* one turn of the loop of ProcessRecords: the record is appended to the
\* slice of its kind
ProcessRecord ==
    /\ stage = "records"
    /\ nextRecord <= Len(dump)
    /\ LET record == dump[nextRecord]
       IN /\ stackTraces' = IF record.tag = "StackTrace"
                               THEN Append(stackTraces, record) ELSE stackTraces
          /\ stackFrames' = IF record.tag = "StackFrame"
                               THEN Append(stackFrames, record) ELSE stackFrames
          /\ startThreads' = IF record.tag = "StartThread"
                                THEN Append(startThreads, record) ELSE startThreads
          /\ endThreads' = IF record.tag = "EndThread"
                              THEN Append(endThreads, record) ELSE endThreads
    /\ nextRecord' = nextRecord + 1
    /\ UNCHANGED <<builder, stage, threadStatus, threadStacks, storeVars,
                   closureVars, webVars, fileVars, analysisVars, sessionVars, segmentVars, extractVars, walkVars>>

RECURSIVE markThreads(_, _, _)
\* for _, t := range threads { threadStatus[t.ThreadSerialNumber] = alive }
markThreads(status, threads, alive) ==
    IF threads = <<>> THEN status
    ELSE markThreads(Put(status, Head(threads).ThreadSerialNumber, alive),
                     Tail(threads), alive)

\* ProcessRecords has returned at the end of the file; threadStatus is made
\* from the StartThread slice, then from the EndThread slice
\* (stack.go:160-166)
MarkThreads ==
    /\ stage = "records"
    /\ nextRecord > Len(dump)
    /\ threadStatus' = markThreads(markThreads(<<>>, startThreads, TRUE),
                                   endThreads, FALSE)
    /\ stage' = "status"
    /\ UNCHANGED <<builder, nextRecord, stackTraces, stackFrames, startThreads,
                   endThreads, threadStacks, storeVars, closureVars, webVars,
                   fileVars, analysisVars, sessionVars, segmentVars, extractVars, walkVars>>

\* threadStatus[serial]: false when serial is no key of the map
statusOf(status, serial) ==
    IF serial \in DOMAIN status THEN status[serial] ELSE FALSE

\* a frame id that makes the index expression of stack_frame.go:22-23 panic
BadFrameId(frameID, frames) == frameID <= Len(frames) /\ frameID - 1 < 0

RECURSIVE framesOf(_, _, _)
\* the frames of a trace: stackFrames[frameID-1] when frameID <=
\* len(stackFrames) (stack_frame.go:21-25) or when 0 <= frameID-1 <
\* len(stackFrames) (the draft, stack_frame.go:377-383), stackFrames[frameID]
\* when 0 <= frameID < len(stackFrames) (part_008:68-72)
framesOf(b, ids, frames) ==
    IF ids = <<>> THEN <<>>
    ELSE LET frameID == Head(ids)
             rest == framesOf(b, Tail(ids), frames)
         IN IF b \in {"stack_frame.go", "draft"}
                THEN IF frameID <= Len(frames) /\ frameID >= 1
                         THEN <<frames[frameID]>> \o rest ELSE rest
            ELSE IF frameID >= 0 /\ frameID < Len(frames)
                         THEN <<frames[frameID + 1]>> \o rest ELSE rest

\* func BuildThreadStacks(stackTraces, stackFrames, threadStatus, ...)
\* the ThreadStack of the draft has no field IsAlive (stack_frame.go:264-267)
BuildThreadStacks(b, traces, frames, status) ==
    [i \in 1..Len(traces) |->
        IF b = "draft"
            THEN [ThreadID |-> traces[i].ThreadSerialNumber,
                  StackFrames |-> framesOf(b, traces[i].FramesID, frames)]
            ELSE [ThreadID |-> traces[i].ThreadSerialNumber,
                  StackFrames |-> framesOf(b, traces[i].FramesID, frames),
                  IsAlive |-> statusOf(status, traces[i].ThreadSerialNumber)]]

\* threadStacks, err := hprof.BuildThreadStacks(...) (stack.go:168); the
\* index expression of stack_frame.go:23 panics on a frame id below 1
BuildStacks ==
    /\ stage = "status"
    /\ IF /\ builder = "stack_frame.go"
          /\ \E i \in DOMAIN stackTraces :
                \E j \in DOMAIN stackTraces[i].FramesID :
                    BadFrameId(stackTraces[i].FramesID[j], stackFrames)
          THEN /\ stage' = "panic"
               /\ UNCHANGED threadStacks
          ELSE /\ stage' = "done"
               /\ threadStacks' = BuildThreadStacks(builder, stackTraces,
                                                    stackFrames, threadStatus)
    /\ UNCHANGED <<builder, nextRecord, stackTraces, stackFrames, startThreads,
                   endThreads, threadStatus, storeVars, closureVars, webVars,
                   fileVars, analysisVars, sessionVars, segmentVars, extractVars, walkVars>>

\* the records of a file: thread starts and ends and stack traces of the
\* thread serials 1 and 2, and stack frames
StackRecordMenu ==
    {[tag |-> t, ThreadSerialNumber |-> n] :
        t \in {"StartThread", "EndThread"}, n \in {1, 2}}
    \cup {[tag |-> "StackTrace", ThreadSerialNumber |-> n, FramesID |-> f] :
            n \in {1, 2}, f \in {<<>>, <<1>>, <<0>>, <<-1>>, <<2, 1>>}}
    \cup {[tag |-> "StackFrame", MethodId |-> 7]}

StackInit ==
    /\ EmptyStore
    /\ ClosureIdle
    /\ FileIdle
    /\ AnalysisIdle
    /\ WalkIdle
    /\ ExtractIdle
    /\ SegmentIdle
    /\ SessionIdle
    /\ handlers = [h \in Handlers |-> IdleHandler]
    /\ requests = 0
    /\ afterDecode = <<>>
    /\ written = <<>>
    /\ dump \in UNION {[1..n -> StackRecordMenu] : n \in 0..MaxStackRecords}
    /\ builder \in {"stack_frame.go", "part_008", "draft"}
    /\ stage = "records"
    /\ nextRecord = 1
    /\ stackTraces = <<>>
    /\ stackFrames = <<>>
    /\ startThreads = <<>>
    /\ endThreads = <<>>
    /\ threadStatus = <<>>
    /\ threadStacks = <<>>

StackNext ==
    \/ ProcessRecord
    \/ MarkThreads
    \/ BuildStacks

StackSpec == StackInit /\ [][StackNext]_vars

\* the index of the last StartThread or EndThread record of the serial n
\* in the file, 0 when there is none
LastLifecycle(n) ==
    LET at == {i \in DOMAIN dump :
                  /\ dump[i].tag \in {"StartThread", "EndThread"}
                  /\ dump[i].ThreadSerialNumber = n}
    IN IF at = {} THEN 0 ELSE CHOOSE i \in at : \A j \in at : j <= i

\* the thread serials that have a lifecycle record in the file
LifecycleSerials == {n \in {1, 2} : LastLifecycle(n) # 0}

\* C11 as stated: for a thread serial the lifecycle record that comes later
\* in the file decides the status: alive when it is a StartThread, not alive
\* when it is an EndThread.
C11_LaterLifecycleRecordDecides ==
    stage \in {"status", "done"} =>
        \A n \in LifecycleSerials :
            statusOf(threadStatus, n) = (dump[LastLifecycle(n)].tag = "StartThread")

\* C12 as stated: a ThreadStack is reported not alive exactly when an
\* EndThread record marked its serial ended; the stack of every other
\* serial, one without a StartThread record included, is reported alive.
C12_NotAliveExactlyWhenEnded ==
    (stage = "done" /\ builder # "draft") =>
        \A i \in DOMAIN threadStacks :
            threadStacks[i].IsAlive =
                ~(\E j \in DOMAIN endThreads :
                      endThreads[j].ThreadSerialNumber = threadStacks[i].ThreadID)

\* C29: BuildThreadStacks never indexes stackFrames out of range: every
\* frame id of every trace, 0, the negative ones and the ones beyond the
\* decoded frames among them, is resolved to a decoded frame or skipped, and
\* the result holds one ThreadStack per stack trace, in the order of the
\* traces.
C29_FrameIdsResolvedOrSkipped ==
    /\ stage # "panic"
    /\ stage = "done" =>
          /\ Len(threadStacks) = Len(stackTraces)
          /\ \A i \in DOMAIN threadStacks :
                /\ threadStacks[i].ThreadID = stackTraces[i].ThreadSerialNumber
                /\ \A k \in DOMAIN threadStacks[i].StackFrames :
                      threadStacks[i].StackFrames[k] \in Range(stackFrames)

(***************************************************************************)
(* The duplicate-strings analysis, AnalyzeDuplicateStrings                 *)
(* (array_info.go:103-207), over a store of String instances and the       *)
(* primitive arrays their value fields name.  A content is the Go string   *)
(* the analysis keys its map with: a sequence of bytes.                    *)
(***************************************************************************)

\* instances in the store
MaxStringInstances == 4

\* IDtoStringInUTF8[id], the empty string when id is no key
stringInUTF8(id) ==
    IF id \in DOMAIN IDtoStringInUTF8 THEN IDtoStringInUTF8[id] ELSE ""

\* func getNameByClassObjectId(classObjectId ID) string
getNameByClassObjectId(classObjectId) ==
    stringInUTF8(Load(ClassObjectIdToClassNameID, classObjectId))

RECURSIVE utf16Decode(_)
\* utf16.Decode as array_info.go:128 calls it: a surrogate pair is one rune,
\* a surrogate without its pair is U+FFFD
utf16Decode(u16s) ==
    IF u16s = <<>> THEN <<>>
    ELSE IF /\ 55296 <= u16s[1] /\ u16s[1] < 56320
            /\ Len(u16s) > 1
            /\ 56320 <= u16s[2] /\ u16s[2] < 57344
        THEN <<(u16s[1] - 55296) * 1024 + (u16s[2] - 56320) + 65536>>
             \o utf16Decode(SubSeq(u16s, 3, Len(u16s)))
    ELSE IF 55296 <= u16s[1] /\ u16s[1] < 57344
        THEN <<65533>> \o utf16Decode(Tail(u16s))
    ELSE <<u16s[1]>> \o utf16Decode(Tail(u16s))

\* the bytes of one rune in a Go string
EncodeRune(r) ==
    IF r < 128 THEN <<r>>
    ELSE IF r < 2048 THEN <<192 + (r \div 64), 128 + (r % 64)>>
    ELSE IF r < 65536
        THEN <<224 + (r \div 4096), 128 + ((r \div 64) % 64), 128 + (r % 64)>>
    ELSE <<240 + (r \div 262144), 128 + ((r \div 4096) % 64),
           128 + ((r \div 64) % 64), 128 + (r % 64)>>

RECURSIVE stringOfRunes(_)
\* string(runes)
stringOfRunes(runes) ==
    IF runes = <<>> THEN <<>>
    ELSE EncodeRune(runes[1]) \o stringOfRunes(Tail(runes))

\* the helper decodeCharArray of AnalyzeDuplicateStrings
decodeCharArray(data) ==
    LET even == IF Len(data) % 2 # 0 THEN SubSeq(data, 1, Len(data) - 1) ELSE data
        u16s == [i \in 1..(Len(even) \div 2) |->
                    BigEndian(SubSeq(even, 2 * i - 1, 2 * i))]
    IN stringOfRunes(utf16Decode(u16s))

RECURSIVE valueOffset(_, _, _)
\* the loop over allFields of AnalyzeDuplicateStrings, from field index i:
\* the offset of the first field of type object named "value", -1 when
\* there is none
valueOffset(fields, i, offset) ==
    IF i > Len(fields) THEN -1
    ELSE IF /\ fields[i].Type = Object
            /\ stringInUTF8(fields[i].FieldNameStringId) = "value"
        THEN offset
    ELSE valueOffset(fields, i + 1, offset + GetSize(fields[i].Type))

\* the array the value field of a String instance names: refId of
\* AnalyzeDuplicateStrings, -1 where the loop body has left with continue
\* before it reads one
valueRef(inst) ==
    IF getNameByClassObjectId(inst.ClassObjectId) # "java.lang.String" THEN -1
    ELSE IF inst.ClassObjectId \notin DOMAIN ClassObjectIdToClassDumpMap THEN -1
    ELSE LET offset == valueOffset(allFieldsFrom(inst.ClassObjectId, <<>>), 1, 0)
         IN IF offset < 0 \/ offset + 8 > Len(inst.InstanceFieldValues) THEN -1
            ELSE BigEndian(SubSeq(inst.InstanceFieldValues, offset + 1, offset + 8))

\* content of AnalyzeDuplicateStrings for a primitive array
contentOf(arr) ==
    IF arr.ElementType = Char THEN decodeCharArray(arr.Elements)
    ELSE arr.Elements

\* the instances the loop of AnalyzeDuplicateStrings counts: those it does
\* not leave with continue
countedStrings ==
    {id \in DOMAIN ObjectIdToInstanceDumpMap :
        LET refId == valueRef(ObjectIdToInstanceDumpMap[id])
        IN /\ refId \in DOMAIN ObjectIdToPrimitiveArrayDumpMap
           /\ Len(ObjectIdToPrimitiveArrayDumpMap[refId].Elements) # 0}

\* content of the counted instance id
countedContent(id) ==
    contentOf(ObjectIdToPrimitiveArrayDumpMap[
                  valueRef(ObjectIdToInstanceDumpMap[id])])

\* the map freq after the loop: content -> Count
freq ==
    [c \in {countedContent(id) : id \in countedStrings} |->
        Cardinality({id \in countedStrings : countedContent(id) = c})]

\* func AnalyzeDuplicateStrings() AnalyzeResult: the bodies it may return.
\* The address a line prints is left out: it is the address of a buffer of
\* this run.
AnalyzeDuplicateStrings ==
    LET duplicates == [c \in {c \in DOMAIN freq : freq[c] > 1} |-> freq[c]]
    IN IF DOMAIN duplicates = {} THEN {<<[text |-> "none"]>>}
       ELSE {[i \in DOMAIN s |-> [Count |-> duplicates[s[i]], Content |-> s[i]]] :
                s \in SortedRows(duplicates)}

RunDuplicateStrings ==
    /\ analysis = "none"
    /\ analysis' = "AnalyzeDuplicateStrings"
    /\ output' \in AnalyzeDuplicateStrings
    /\ UNCHANGED <<storeVars, closureVars, webVars, fileVars, stackVars, sessionVars, segmentVars, extractVars, walkVars>>

\* the String class (id 20): an int field, then the field value of type object
StringClassDump ==
    [ClassObjectId |-> 20, SuperClassObjectId |-> 0, InstanceSize |-> 12,
     StaticFields |-> <<>>,
     InstanceFields |-> <<[Type |-> IntType, FieldNameStringId |-> 31],
                          [Type |-> Object, FieldNameStringId |-> 30]>>]

\* the same layout under another class name (id 21)
OtherClassDump == [StringClassDump EXCEPT !.ClassObjectId = 21]

\* the value arrays a dump may hold: "hi" in UTF-16BE, the same with an odd
\* trailing byte, "hi" as bytes, a surrogate without its pair, no elements
ValueArrayMenu ==
    {[ElementType |-> Char, Elements |-> <<0, 104, 0, 105>>],
     [ElementType |-> Char, Elements |-> <<0, 104, 0, 105, 7>>],
     [ElementType |-> Byte, Elements |-> <<104, 105>>],
     [ElementType |-> Char, Elements |-> <<216, 61, 0, 104>>],
     [ElementType |-> Char, Elements |-> <<>>]}

ValueArrayIds == {5, 6}

\* an instance: its class and the array id of its value field (7 is the id
\* of no array)
StringInstanceMenu == ({20} \X {5, 6, 7}) \cup {<<21, 5>>}

StringsInit ==
    /\ \E arrs \in [ValueArrayIds -> ValueArrayMenu],
          insts \in [1..MaxStringInstances -> StringInstanceMenu] :
          /\ ObjectIdToPrimitiveArrayDumpMap =
                 [a \in ValueArrayIds |->
                     [ArrayObjectId |-> a,
                      NumberOfElements |->
                          Len(arrs[a].Elements) \div GetSize(arrs[a].ElementType),
                      ElementType |-> arrs[a].ElementType,
                      Elements |-> arrs[a].Elements]]
          /\ ObjectIdToInstanceDumpMap =
                 [i \in 1..MaxStringInstances |->
                     [ObjectId |-> i, ClassObjectId |-> insts[i][1],
                      NumberOfBytes |-> 12,
                      InstanceFieldValues |-> Zeros(4) \o Id8(insts[i][2])]]
    /\ ClassObjectIdToClassDumpMap =
           (20 :> StringClassDump) @@ (21 :> OtherClassDump)
    /\ ObjectIdToObjectArrayDumpMap = <<>>
    /\ IDtoSizeClassDump = <<>>
    /\ ClassObjectIdToCountInstances = <<>>
    /\ IDtoStringInUTF8 =
           (30 :> "value") @@ (31 :> "hash") @@ (40 :> "java.lang.String")
               @@ (41 :> "java.lang.StringBuilder")
    /\ ClassObjectIdToClassNameID = (20 :> 40) @@ (21 :> 41)
    /\ ClosureIdle
    /\ WebIdle
    /\ FileIdle
    /\ StackIdle
    /\ AnalysisIdle
    /\ WalkIdle
    /\ ExtractIdle
    /\ SegmentIdle
    /\ SessionIdle

StringsNext == RunDuplicateStrings

StringsSpec == StringsInit /\ [][StringsNext]_vars

\* the String instances of the store whose value field names a primitive
\* array of the store
StringsWithValueArray ==
    {id \in DOMAIN ObjectIdToInstanceDumpMap :
        /\ getNameByClassObjectId(ObjectIdToInstanceDumpMap[id].ClassObjectId)
               = "java.lang.String"
        /\ valueRef(ObjectIdToInstanceDumpMap[id])
               \in DOMAIN ObjectIdToPrimitiveArrayDumpMap}

\* what the value array of such an instance decodes to
DecodedValue(id) ==
    contentOf(ObjectIdToPrimitiveArrayDumpMap[valueRef(ObjectIdToInstanceDumpMap[id])])

\* C13: after analyzeDuplicateStrings, any two String instances whose value
\* arrays decode to the same content are counted in one group, every group
\* of two or more is a row of the body, and the rows come by count
\* descending.
C13_EqualContentsShareAGroup ==
    analysis = "AnalyzeDuplicateStrings" =>
        /\ \A x, y \in StringsWithValueArray :
              (x # y /\ DecodedValue(x) = DecodedValue(y)) =>
                  \E i \in DOMAIN output :
                      /\ "Content" \in DOMAIN output[i]
                      /\ output[i].Content = DecodedValue(x)
                      /\ output[i].Count =
                             Cardinality({z \in StringsWithValueArray :
                                             DecodedValue(z) = DecodedValue(x)})
        /\ \A i, j \in DOMAIN output :
              (i < j /\ "Count" \in DOMAIN output[i] /\ "Count" \in DOMAIN output[j])
                  => output[i].Count >= output[j].Count

-----------------------------------------------------------------------------
(* The Top-N tables over a decoded store: PrintSizeClasses and             *)
(* PrintCountInstances (class.go:1674-1730) called with an option max,     *)
(* after the ingest of a sub-record sequence.                              *)

\* sub-records in the dump the tables are printed for
MaxTopRecords == 3

RECURSIVE applyWrites(_, _)
\* the map writes of one sub-record, in order, applied to the store s
applyWrites(s, writes) ==
    IF writes = <<>> THEN s
    ELSE LET w == writes[1]
             v == IF w.op = "add" THEN Load(s[w.map], w.key) + w.val ELSE w.val
         IN applyWrites([s EXCEPT ![w.map] = Put(@, w.key, v)], Tail(writes))

RECURSIVE readHeapDump(_, _)
\* the sub-record loop of ParseHeapDump (class.go:821-857) run by one
\* goroutine over the sub-records d, from the store s
readHeapDump(s, d) ==
    IF d = <<>> THEN s
    ELSE readHeapDump(applyWrites(s, subRecordWrites(d[1])), Tail(d))

RunSizeClasses ==
    /\ analysis = "none"
    /\ \E max \in 0..TopN :
          /\ analysis' = "PrintSizeClasses"
          /\ output' \in PrintSizeClasses(max)
    /\ UNCHANGED <<storeVars, closureVars, webVars, fileVars, stackVars, sessionVars, segmentVars, extractVars, walkVars>>

RunCountInstances ==
    /\ analysis = "none"
    /\ \E max \in 0..TopN :
          /\ analysis' = "PrintCountInstances"
          /\ output' \in PrintCountInstances(max)
    /\ UNCHANGED <<storeVars, closureVars, webVars, fileVars, stackVars, sessionVars, segmentVars, extractVars, walkVars>>

\* the string records of a file: none, or the string "foo" under id 1
StringRecordsMenu == {<<>>, (1 :> "foo")}

\* a process that has decoded the string records and the sub-records of a
\* dump once
TopInit ==
    /\ \E d \in UNION {[1..n -> SubRecordMenu] : n \in 0..MaxTopRecords},
          strings \in StringRecordsMenu :
          /\ dump = d
          /\ LET s == readHeapDump(
                          [ClassObjectIdToClassDumpMap |-> <<>>,
                           ObjectIdToInstanceDumpMap |-> <<>>,
                           ObjectIdToObjectArrayDumpMap |-> <<>>,
                           ObjectIdToPrimitiveArrayDumpMap |-> <<>>,
                           IDtoSizeClassDump |-> <<>>,
                           ClassObjectIdToCountInstances |-> <<>>,
                           IDtoStringInUTF8 |-> strings,
                           ClassObjectIdToClassNameID |-> <<>>], d)
             IN /\ ClassObjectIdToClassDumpMap = s.ClassObjectIdToClassDumpMap
                /\ ObjectIdToInstanceDumpMap = s.ObjectIdToInstanceDumpMap
                /\ ObjectIdToObjectArrayDumpMap = s.ObjectIdToObjectArrayDumpMap
                /\ ObjectIdToPrimitiveArrayDumpMap = s.ObjectIdToPrimitiveArrayDumpMap
                /\ IDtoSizeClassDump = s.IDtoSizeClassDump
                /\ ClassObjectIdToCountInstances = s.ClassObjectIdToCountInstances
                /\ IDtoStringInUTF8 = s.IDtoStringInUTF8
                /\ ClassObjectIdToClassNameID = s.ClassObjectIdToClassNameID
    /\ handlers = [h \in Handlers |-> IdleHandler]
    /\ requests = 0
    /\ afterDecode = <<>>
    /\ written = <<>>
    /\ ClosureIdle
    /\ FileIdle
    /\ StackIdle
    /\ AnalysisIdle
    /\ WalkIdle
    /\ ExtractIdle
    /\ SegmentIdle
    /\ SessionIdle

TopNext ==
    \/ RunSizeClasses
    \/ RunCountInstances
    \/ RunDuplicateStrings

TopSpec == TopInit /\ [][TopNext]_vars

\* the value a row of a Top-N table is ranked by
RowValue(row) == IF "size" \in DOMAIN row THEN row.size ELSE row.count

\* C14 as stated: the rows of a Top-N table come by value descending and,
\* where two values are equal, by id descending: the order of the entries
\* is a function of the store.
C14_TiesBrokenByDescendingId ==
    analysis \in {"PrintSizeClasses", "PrintCountInstances"} =>
        \A i, j \in DOMAIN output :
            (i < j /\ output[i] # EmptyLine /\ output[j] # EmptyLine) =>
                \/ RowValue(output[i]) > RowValue(output[j])
                \/ /\ RowValue(output[i]) = RowValue(output[j])
                   /\ output[i].id > output[j].id

-----------------------------------------------------------------------------
(* getObjectSize (class.go:1135-1145) applied to the arrays of a store     *)
(* that was decoded from a file whose header declares identifiers of 4 or  *)
(* of 8 bytes.                                                             *)

MeasureObject ==
    /\ analysis = "none"
    /\ \E objectId \in DOMAIN ObjectIdToObjectArrayDumpMap
                       \cup DOMAIN ObjectIdToPrimitiveArrayDumpMap :
          /\ analysis' = "getObjectSize"
          /\ output' = [objectId |-> objectId,
                        size |-> getObjectSize(getObject(objectId))]
    /\ UNCHANGED <<storeVars, closureVars, webVars, fileVars, stackVars, sessionVars, segmentVars, extractVars, walkVars>>

\* the header has been read; the store holds the object array 1 and the
\* primitive array 2
SizeInit ==
    /\ \E w \in {4, 8} :
          /\ file = HeaderBytes(hprofMark \o <<0>>, w)
          /\ header = [Magic |-> readHeader(file).Magic,
                       IdentifierSize |-> readHeader(file).IdentifierSize]
          /\ fileOffset = readHeader(file).off
    /\ program = "ParseHeapDump"
    /\ reader = "records"
    /\ delivered = <<>>
    /\ printed = <<>>
    /\ \E n \in 0..MaxElements :
          ObjectIdToObjectArrayDumpMap =
              (1 :> [ArrayObjectId |-> 1, NumberOfElements |-> n,
                     ArrayClassObjectId |-> 10, Elements |-> [e \in 1..n |-> 0]])
    /\ \E n \in 0..MaxElements, t \in BasicTypes \ {Object} :
          ObjectIdToPrimitiveArrayDumpMap =
              (2 :> [ArrayObjectId |-> 2, NumberOfElements |-> n, ElementType |-> t,
                     Elements |-> Zeros(n * GetSize(t))])
    /\ ClassObjectIdToClassDumpMap = <<>>
    /\ ObjectIdToInstanceDumpMap = <<>>
    /\ IDtoSizeClassDump = <<>>
    /\ ClassObjectIdToCountInstances = <<>>
    /\ IDtoStringInUTF8 = <<>>
    /\ ClassObjectIdToClassNameID = <<>>
    /\ ClosureIdle
    /\ WebIdle
    /\ StackIdle
    /\ AnalysisIdle
    /\ WalkIdle
    /\ ExtractIdle
    /\ SegmentIdle
    /\ SessionIdle

SizeNext == MeasureObject

SizeSpec == SizeInit /\ [][SizeNext]_vars

\* C16 as stated: the size of an object array of n elements is 16 + n * W,
\* W being the identifier width the header declares (4 or 8), and the size
\* of a primitive array of n elements is 16 + n * sizeof(type).
C16_ArraySizeUsesDeclaredWidth ==
    analysis = "getObjectSize" =>
        LET obj == getObject(output.objectId)
        IN /\ obj.kind = "ObjectArrayDump" =>
                 output.size = 16 + obj.v.NumberOfElements * header.IdentifierSize
           /\ obj.kind = "PrimitiveArrayDump" =>
                 output.size = 16 + obj.v.NumberOfElements
                                      * GetSize(obj.v.ElementType)

-----------------------------------------------------------------------------
(* parseInstanceReferences (class.go:1102-1133) applied to an instance of  *)
(* class 10 whose class chain is 10 -> 11 -> 12.  Each class declares the  *)
(* fields of one entry of FieldsMenu; class 11 or class 12 may be absent   *)
(* from the store (the payload then holds the fields of the classes up to  *)
(* the absent one), and the payload of the instance may be shorter or      *)
(* longer than those fields.  The identifiers are 8 bytes wide, the width  *)
(* the decoders store; the k-th field of type object, counted from the     *)
(* topmost class, holds the identifier k.                                  *)

FieldsMenu ==
    {<<>>,
     <<[Type |-> IntType]>>,
     <<[Type |-> Object]>>,
     <<[Type |-> Byte], [Type |-> Object]>>,
     <<[Type |-> Object], [Type |-> Long]>>}

\* lengths by which the payload differs from the fields of the chain
PayloadMenu == {0, -1, 3}

RECURSIVE PayloadOf(_, _)
\* the bytes of the fields, the k-th object field holding the identifier k
PayloadOf(fields, k) ==
    IF fields = <<>> THEN <<>>
    ELSE IF Head(fields).Type = Object
        THEN Id8(k) \o PayloadOf(Tail(fields), k + 1)
    ELSE Zeros(GetSize(Head(fields).Type)) \o PayloadOf(Tail(fields), k)

\* the payload cut or extended by d bytes
Resized(bytes, d) ==
    IF d <= 0 THEN SubSeq(bytes, 1, Len(bytes) + d) ELSE bytes \o Zeros(d)

ProjectInstance ==
    /\ analysis = "none"
    /\ \E objId \in DOMAIN ObjectIdToInstanceDumpMap :
          LET instance == ObjectIdToInstanceDumpMap[objId]
              allFields == allFieldsFrom(instance.ClassObjectId, <<>>)
          IN /\ analysis' = "parseInstanceReferences"
             /\ output' = [objId |-> objId,
                           allFields |-> allFields,
                           refs |-> parseInstanceReferences(instance),
                           offset |-> offsetAfterFields(allFields, 1, 0,
                                         instance.InstanceFieldValues),
                           read |-> bytesReadOfFields(allFields, 1, 0,
                                         instance.InstanceFieldValues)]
    /\ UNCHANGED <<storeVars, closureVars, webVars, fileVars, stackVars, sessionVars, segmentVars, extractVars, walkVars>>

ProjectionInit ==
    /\ \E f \in [{10, 11, 12} -> FieldsMenu], present \in SUBSET {11, 12},
          d \in PayloadMenu :
          LET known == (IF present = {11, 12} THEN f[12] ELSE <<>>)
                       \o (IF 11 \in present THEN f[11] ELSE <<>>) \o f[10]
              payload == Resized(PayloadOf(known, 1),
                                 IF known = <<>> /\ d < 0 THEN 0 ELSE d)
          IN /\ ClassObjectIdToClassDumpMap =
                    [c \in {10} \cup present |->
                        [ClassObjectId |-> c,
                         SuperClassObjectId |-> IF c = 12 THEN 0 ELSE c + 1,
                         InstanceSize |-> Len(payload),
                         StaticFields |-> <<>>,
                         InstanceFields |-> f[c]]]
             /\ ObjectIdToInstanceDumpMap =
                    (1 :> [ObjectId |-> 1, ClassObjectId |-> 10,
                           NumberOfBytes |-> Len(payload),
                           InstanceFieldValues |-> payload])
    /\ ObjectIdToObjectArrayDumpMap = <<>>
    /\ ObjectIdToPrimitiveArrayDumpMap = <<>>
    /\ IDtoSizeClassDump = <<>>
    /\ ClassObjectIdToCountInstances = <<>>
    /\ IDtoStringInUTF8 = <<>>
    /\ ClassObjectIdToClassNameID = <<>>
    /\ ClosureIdle
    /\ WebIdle
    /\ FileIdle
    /\ StackIdle
    /\ AnalysisIdle
    /\ WalkIdle
    /\ ExtractIdle
    /\ SegmentIdle
    /\ SessionIdle

ProjectionNext == ProjectInstance

ProjectionSpec == ProjectionInit /\ [][ProjectionNext]_vars

RECURSIVE FieldsTopDown(_)
\* the fields of a class and its ancestors, the topmost ancestor's first
FieldsTopDown(c) ==
    LET cd == ClassObjectIdToClassDumpMap[c]
    IN IF cd.SuperClassObjectId = 0 THEN cd.InstanceFields
       ELSE FieldsTopDown(cd.SuperClassObjectId) \o cd.InstanceFields

RECURSIVE ChainIsWhole(_)
\* every class of the chain of c is in the store
ChainIsWhole(c) ==
    /\ c \in DOMAIN ClassObjectIdToClassDumpMap
    /\ \/ ClassObjectIdToClassDumpMap[c].SuperClassObjectId = 0
       \/ ChainIsWhole(ClassObjectIdToClassDumpMap[c].SuperClassObjectId)

RECURSIVE WidthOf(_)
\* the declared widths of a field sequence, added up
WidthOf(fields) ==
    IF fields = <<>> THEN 0
    ELSE GetSize(Head(fields).Type) + WidthOf(Tail(fields))

\* the class chain of the instance is consistent: every class of it is in
\* the store and the widths of its fields add up to numberOfBytes, the
\* length of the payload
ChainConsistent(instance) ==
    /\ ChainIsWhole(instance.ClassObjectId)
    /\ Len(instance.InstanceFieldValues) = instance.NumberOfBytes
    /\ WidthOf(FieldsTopDown(instance.ClassObjectId)) = instance.NumberOfBytes

\* the object-typed fields among the first n fields
ObjectFieldsUpTo(fields, n) == {i \in 1..n : fields[i].Type = Object}

FieldsWithin(fields, n) ==
    {i \in DOMAIN fields : WidthOf(SubSeq(fields, 1, i)) <= n}

\* C25: instance projection reads no payload byte at an index of
\* numberOfBytes or more: decoding stops at the first field, of any type,
\* that would end beyond numberOfBytes, so the references are those of the
\* object fields that lie inside the payload, and the fields left over are
\* reported as TruncatedInstance.
C25_TruncatedInstanceReported ==
    analysis = "parseInstanceReferences" =>
        LET instance == ObjectIdToInstanceDumpMap[output.objId]
            n == instance.NumberOfBytes
            within == FieldsWithin(output.allFields, n)
        IN /\ \A b \in output.read : b < n
           /\ Len(output.refs) =
                  Cardinality({i \in within : output.allFields[i].Type = Object})
           /\ WidthOf(output.allFields) > n => "TruncatedInstance" \in Range(errors)

-----------------------------------------------------------------------------
(* The array-owner analyses over the relational store: AnalyzeArrayOwners  *)
(* and AnalyzeTopArrayOwners (part_003:161-384, 408-783) and the tables    *)
(* of models.go.  The code that fills the tables is not part of the        *)
(* source tree; the tables are modelled as the rows the sub-records of the *)
(* dump give in file order, one table per record shape, the key            *)
(* InstanceFieldRecord.ID being the serial number the database hands out   *)
(* (models.go:396, autoIncrement).  The rows keep the columns of a query   *)
(* that identify array, owner and field; the type and class names it also  *)
(* selects are left out.  The database is taken as initialized.            *)

RECURSIVE ClassDumpsOf(_)
\* the class dumps of the sub-records d, in file order
ClassDumpsOf(d) ==
    IF d = <<>> THEN <<>>
    ELSE (IF d[1].tag = "ClassDump" THEN <<d[1].v>> ELSE <<>>) \o ClassDumpsOf(Tail(d))

RECURSIVE InstanceFieldRecordRows(_, _)
\* table InstanceFieldRecord: one row per declared instance field, numbered
\* from nextId on
InstanceFieldRecordRows(classDumps, nextId) ==
    IF classDumps = <<>> THEN {}
    ELSE LET cd == classDumps[1]
         IN {[ID |-> nextId + i - 1, ClassDumpID |-> cd.ClassObjectId,
              FieldNameStringID |-> cd.InstanceFields[i].FieldNameStringId,
              Type |-> cd.InstanceFields[i].Type] : i \in DOMAIN cd.InstanceFields}
            \cup InstanceFieldRecordRows(Tail(classDumps),
                                         nextId + Len(cd.InstanceFields))

InstanceFieldRecordTable == InstanceFieldRecordRows(ClassDumpsOf(dump), 1)

\* table StaticFieldRecord: one row per static field of a class dump
StaticFieldRecordTable ==
    UNION {{[ClassDumpID |-> c,
             StaticFieldNameStringID |->
                 ClassObjectIdToClassDumpMap[c].StaticFields[i].StaticFieldNameStringId,
             Type |-> ClassObjectIdToClassDumpMap[c].StaticFields[i].Type,
             Value |-> ClassObjectIdToClassDumpMap[c].StaticFields[i].Value] :
                i \in DOMAIN ClassObjectIdToClassDumpMap[c].StaticFields} :
           c \in DOMAIN ClassObjectIdToClassDumpMap}

\* the payload bytes of the field at index i of the projection of an instance
FieldValue(fields, i, values) ==
    LET at == offsetAfterFields(SubSeq(fields, 1, i - 1), 1, 0, values)
    IN SubSeq(values, at + 1, at + GetSize(fields[i].Type))

\* table InstanceFieldValues: one row per field of the projection of an
\* instance, Index counting the fields from 0
InstanceFieldValuesTable ==
    UNION {LET instance == ObjectIdToInstanceDumpMap[o]
               fields == allFieldsFrom(instance.ClassObjectId, <<>>)
           IN {[InstanceDumpID |-> o, Index |-> i - 1, Type |-> fields[i].Type,
                Value |-> FieldValue(fields, i, instance.InstanceFieldValues)] :
                  i \in DOMAIN fields} :
           o \in DOMAIN ObjectIdToInstanceDumpMap}

\* table ObjectArrayElement: one row per element, Index counting from 0
ObjectArrayElementTable ==
    UNION {{[ObjectArrayDumpID |-> a, Index |-> i - 1,
             InstanceDumpID |-> ObjectIdToObjectArrayDumpMap[a].Elements[i]] :
                i \in DOMAIN ObjectIdToObjectArrayDumpMap[a].Elements} :
           a \in DOMAIN ObjectIdToObjectArrayDumpMap}

\* COALESCE(convert_from(field_s."Bytes", 'UTF8'), 'Unknown field')
FieldNameOf(stringId, unknown) ==
    IF stringId \in DOMAIN IDtoStringInUTF8 THEN IDtoStringInUTF8[stringId]
    ELSE unknown

\* the array tables as one: id -> NumberOfElements, for the arrays of kind
ArrayElementsOf(kind) ==
    IF kind = "object"
        THEN [a \in DOMAIN ObjectIdToObjectArrayDumpMap |->
                 ObjectIdToObjectArrayDumpMap[a].NumberOfElements]
        ELSE [a \in DOMAIN ObjectIdToPrimitiveArrayDumpMap |->
                 ObjectIdToPrimitiveArrayDumpMap[a].NumberOfElements]

\* queries 1 and 2 of AnalyzeArrayOwners (part_003:175-193, 204-230): the
\* arrays of a kind held by instance fields
arrayFieldQuery(kind, maxElements) ==
    {[ArrayID |-> a, ArrayElements |-> ArrayElementsOf(kind)[a],
      OwnerType |-> "InstanceField", OwnerID |-> ifv.InstanceDumpID,
      FieldName |-> FieldNameOf(ifr.FieldNameStringID, "Unknown field")] :
        <<a, ifv, ifr>> \in
            {t \in (DOMAIN ArrayElementsOf(kind)) \X InstanceFieldValuesTable
                       \X InstanceFieldRecordTable :
                /\ Id8(t[1]) = t[2].Value
                /\ t[2].Type = Object
                /\ t[2].InstanceDumpID \in DOMAIN ObjectIdToInstanceDumpMap
                /\ t[3].ClassDumpID =
                       ObjectIdToInstanceDumpMap[t[2].InstanceDumpID].ClassObjectId
                /\ t[3].ID = t[2].Index + 1
                /\ ArrayElementsOf(kind)[t[1]] >= maxElements}}

\* queries 3 and 4 (part_003:241-258, 268-293): held by static fields
arrayStaticQuery(kind, maxElements) ==
    {[ArrayID |-> a, ArrayElements |-> ArrayElementsOf(kind)[a],
      OwnerType |-> "StaticField", OwnerID |-> sfr.ClassDumpID,
      FieldName |-> FieldNameOf(sfr.StaticFieldNameStringID,
                                "Unknown static field")] :
        <<a, sfr>> \in
            {t \in (DOMAIN ArrayElementsOf(kind)) \X StaticFieldRecordTable :
                /\ Id8(t[1]) = t[2].Value
                /\ t[2].Type = Object
                /\ ArrayElementsOf(kind)[t[1]] >= maxElements}}

\* query 5 (part_003:303-342): held as elements of object arrays.  The
\* field name is '[' || Index || ']'.
arrayInArrayQuery(maxElements) ==
    {[ArrayID |-> oae.InstanceDumpID,
      ArrayElements |-> IF oae.InstanceDumpID \in DOMAIN ObjectIdToObjectArrayDumpMap
                            THEN ArrayElementsOf("object")[oae.InstanceDumpID]
                            ELSE ArrayElementsOf("primitive")[oae.InstanceDumpID],
      OwnerType |-> "ArrayElement", OwnerID |-> oae.ObjectArrayDumpID,
      FieldName |-> <<"[", oae.Index, "]">>] :
        oae \in {r \in ObjectArrayElementTable :
                    \/ /\ r.InstanceDumpID \in DOMAIN ObjectIdToObjectArrayDumpMap
                       /\ ArrayElementsOf("object")[r.InstanceDumpID] >= maxElements
                    \/ /\ r.InstanceDumpID \in DOMAIN ObjectIdToPrimitiveArrayDumpMap
                       /\ ArrayElementsOf("primitive")[r.InstanceDumpID]
                              >= maxElements}}

\* owners of AnalyzeArrayOwners before the sort: the rows of the five queries
ownerRows(maxElements) ==
    arrayFieldQuery("object", maxElements)
    \cup arrayFieldQuery("primitive", maxElements)
    \cup arrayStaticQuery("object", maxElements)
    \cup arrayStaticQuery("primitive", maxElements)
    \cup arrayInArrayQuery(maxElements)

RECURSIVE sortedByElements(_)
\* sort.Slice(owners, ...ArrayElements > ...): the orders it may leave the
\* rows in, rows of equal ArrayElements in any order
sortedByElements(rows) ==
    IF rows = {} THEN {<<>>}
    ELSE UNION {{<<x>> \o rest : rest \in sortedByElements(rows \ {x})} :
                x \in {y \in rows : \A z \in rows :
                                       y.ArrayElements >= z.ArrayElements}}

\* func AnalyzeArrayOwners(maxElements int) AnalyzeResult: the bodies it may
\* return, a line that counts the rows and then a line per row
AnalyzeArrayOwners(maxElements) ==
    LET owners == ownerRows(maxElements)
    IN IF owners = {} THEN {<<[text |-> "none"]>>}
       ELSE {<<[text |-> "found", count |-> Cardinality(owners)]>> \o s :
                s \in sortedByElements(owners)}

RunArrayOwners ==
    /\ analysis = "none"
    /\ \E maxElements \in {0, 2} :
          /\ analysis' = "AnalyzeArrayOwners"
          /\ output' \in AnalyzeArrayOwners(maxElements)
    /\ UNCHANGED <<storeVars, closureVars, webVars, fileVars, stackVars, sessionVars, segmentVars, extractVars, walkVars>>


\* array_size of the queries of AnalyzeTopArrayOwners (part_003:442,
\* 481-495): the header and the elements at the width of their type
arraySize(a) ==
    IF a \in DOMAIN ObjectIdToObjectArrayDumpMap
        THEN ArrayHeaderSize + ObjectIdToObjectArrayDumpMap[a].NumberOfElements * 8
        ELSE ArrayHeaderSize + ObjectIdToPrimitiveArrayDumpMap[a].NumberOfElements
                 * GetSize(ObjectIdToPrimitiveArrayDumpMap[a].ElementType)

\* ownerKey := fmt.Sprintf("%s_%d", row.OwnerType, row.OwnerID)
ownerKey(row) == <<row.OwnerType, row.OwnerID>>

\* the loop over allResults and the loop over ownerMap of
\* AnalyzeTopArrayOwners (part_003:668-725): one record per owner key, the
\* fields of its rows joined, every row counted as an array
ownersOf(rows) ==
    {LET mine == {r \in rows : ownerKey(r) = k}
         any == CHOOSE r \in mine : TRUE
     IN [OwnerType |-> any.OwnerType, OwnerID |-> any.OwnerID,
         OwnerField |-> {r.FieldName : r \in mine},
         Arrays |-> [r \in mine |-> r.ArrayID],
         TotalArrays |-> Cardinality(mine),
         TotalSize |-> SumOfTable([r \in mine |-> arraySize(r.ArrayID)])] :
        k \in {ownerKey(r) : r \in rows}}

RECURSIVE sortedByTotalSize(_)
\* sort.Slice(owners, ...TotalSize > ...)
sortedByTotalSize(owners) ==
    IF owners = {} THEN {<<>>}
    ELSE UNION {{<<x>> \o rest : rest \in sortedByTotalSize(owners \ {x})} :
                x \in {y \in owners : \A z \in owners : y.TotalSize >= z.TotalSize}}

\* func AnalyzeTopArrayOwners(maxOwners int) AnalyzeResult: the bodies it may
\* return.  Its queries are those of AnalyzeArrayOwners without the test of
\* NumberOfElements.  A negative displayCount cannot happen here.
AnalyzeTopArrayOwners(maxOwners) ==
    LET owners == ownersOf(ownerRows(0))
    IN IF owners = {} THEN {<<[text |-> "none"]>>}
       ELSE {<<[text |-> "found", count |-> Cardinality(owners)]>>
             \o SubSeq(s, 1, Min(maxOwners, Len(s))) :
                s \in sortedByTotalSize(owners)}

RunTopArrayOwners ==
    /\ analysis = "none"
    /\ \E maxOwners \in 0..TopN :
          /\ analysis' = "AnalyzeTopArrayOwners"
          /\ output' \in AnalyzeTopArrayOwners(maxOwners)
    /\ UNCHANGED <<storeVars, closureVars, webVars, fileVars, stackVars, sessionVars, segmentVars, extractVars, walkVars>>

\* a named static field of type object
NamedStatic(nameId, value) ==
    [StaticFieldNameStringId |-> nameId, Type |-> Object, Value |-> Id8(value)]

\* The dumps of the owner analyses.  Class 10 declares the object fields f
\* and g and the static fields of OwnerStaticsMenu, class 11 the object
\* field x; their class dumps come in either order.  Instance 1 is of class
\* 10, instance 2 of class 11.  5 is a char array of 2 elements, 6 an object
\* array with the elements of OwnerElementsMenu; 0 is the null reference.
OwnerStaticsMenu ==
    {<<>>, <<NamedStatic(33, 5)>>, <<NamedStatic(33, 5), NamedStatic(34, 5)>>}

OwnerElementsMenu == {<<>>, <<5>>, <<5, 5>>, <<0, 0, 0, 5>>}

OwnerClassDump(c, statics) ==
    [tag |-> "ClassDump",
     v |-> [ClassObjectId |-> c, SuperClassObjectId |-> 0,
            InstanceSize |-> IF c = 10 THEN 16 ELSE 8,
            StaticFields |-> IF c = 10 THEN statics ELSE <<>>,
            InstanceFields |->
                IF c = 10 THEN <<[FieldNameStringId |-> 30, Type |-> Object],
                                 [FieldNameStringId |-> 31, Type |-> Object]>>
                ELSE <<[FieldNameStringId |-> 32, Type |-> Object]>>]]

OwnerDump(first, statics, elements, f, g, x) ==
    <<OwnerClassDump(first, statics), OwnerClassDump(21 - first, statics),
      [tag |-> "InstanceDump",
       v |-> [ObjectId |-> 1, ClassObjectId |-> 10, NumberOfBytes |-> 16,
              InstanceFieldValues |-> Id8(f) \o Id8(g)]],
      [tag |-> "InstanceDump",
       v |-> [ObjectId |-> 2, ClassObjectId |-> 11, NumberOfBytes |-> 8,
              InstanceFieldValues |-> Id8(x)]],
      [tag |-> "PrimitiveArrayDump",
       v |-> [ArrayObjectId |-> 5, NumberOfElements |-> 2, ElementType |-> Char,
              Elements |-> Zeros(4)]],
      [tag |-> "ObjectArrayDump",
       v |-> [ArrayObjectId |-> 6, NumberOfElements |-> Len(elements),
              ArrayClassObjectId |-> 10, Elements |-> elements]]>>

OwnersInit ==
    /\ \E first \in {10, 11}, statics \in OwnerStaticsMenu,
          elements \in OwnerElementsMenu, f \in {0, 5, 6}, g \in {0, 5},
          x \in {0, 5} :
          /\ dump = OwnerDump(first, statics, elements, f, g, x)
          /\ LET s == readHeapDump(
                          [ClassObjectIdToClassDumpMap |-> <<>>,
                           ObjectIdToInstanceDumpMap |-> <<>>,
                           ObjectIdToObjectArrayDumpMap |-> <<>>,
                           ObjectIdToPrimitiveArrayDumpMap |-> <<>>,
                           IDtoSizeClassDump |-> <<>>,
                           ClassObjectIdToCountInstances |-> <<>>,
                           IDtoStringInUTF8 |->
                               (30 :> "f") @@ (31 :> "g") @@ (32 :> "x")
                                   @@ (33 :> "s") @@ (34 :> "t"),
                           ClassObjectIdToClassNameID |-> <<>>], dump)
             IN /\ ClassObjectIdToClassDumpMap = s.ClassObjectIdToClassDumpMap
                /\ ObjectIdToInstanceDumpMap = s.ObjectIdToInstanceDumpMap
                /\ ObjectIdToObjectArrayDumpMap = s.ObjectIdToObjectArrayDumpMap
                /\ ObjectIdToPrimitiveArrayDumpMap = s.ObjectIdToPrimitiveArrayDumpMap
                /\ IDtoSizeClassDump = s.IDtoSizeClassDump
                /\ ClassObjectIdToCountInstances = s.ClassObjectIdToCountInstances
                /\ IDtoStringInUTF8 = s.IDtoStringInUTF8
                /\ ClassObjectIdToClassNameID = s.ClassObjectIdToClassNameID
    /\ handlers = [h \in Handlers |-> IdleHandler]
    /\ requests = 0
    /\ afterDecode = <<>>
    /\ written = <<>>
    /\ ClosureIdle
    /\ FileIdle
    /\ StackIdle
    /\ AnalysisIdle
    /\ WalkIdle
    /\ ExtractIdle
    /\ SegmentIdle
    /\ SessionIdle

OwnersNext ==
    \/ RunArrayOwners
    \/ RunTopArrayOwners

OwnersSpec == OwnersInit /\ [][OwnersNext]_vars

\* the owner of the row holds the array of the row in the field or at the
\* index the row names
Genuine(row) ==
    CASE row.OwnerType = "InstanceField" ->
            /\ row.OwnerID \in DOMAIN ObjectIdToInstanceDumpMap
            /\ LET instance == ObjectIdToInstanceDumpMap[row.OwnerID]
                   fields == FieldsTopDown(instance.ClassObjectId)
               IN \E i \in DOMAIN fields :
                     /\ fields[i].Type = Object
                     /\ IDtoStringInUTF8[fields[i].FieldNameStringId] = row.FieldName
                     /\ FieldValue(fields, i, instance.InstanceFieldValues)
                            = Id8(row.ArrayID)
      [] row.OwnerType = "StaticField" ->
            /\ row.OwnerID \in DOMAIN ClassObjectIdToClassDumpMap
            /\ \E sf \in Range(ClassObjectIdToClassDumpMap[row.OwnerID].StaticFields) :
                  /\ sf.Type = Object
                  /\ IDtoStringInUTF8[sf.StaticFieldNameStringId] = row.FieldName
                  /\ sf.Value = Id8(row.ArrayID)
      [] row.OwnerType = "ArrayElement" ->
            /\ row.OwnerID \in DOMAIN ObjectIdToObjectArrayDumpMap
            /\ LET elements == ObjectIdToObjectArrayDumpMap[row.OwnerID].Elements
               IN /\ row.FieldName[2] + 1 \in DOMAIN elements
                  /\ elements[row.FieldName[2] + 1] = row.ArrayID
      [] OTHER -> FALSE

\* the rows of a body of AnalyzeArrayOwners
RowsOf(body) == {body[i] : i \in {j \in DOMAIN body : "ArrayID" \in DOMAIN body[j]}}

\* C18 as stated: every row of analyzeArrayOwners is genuine: the instance
\* field, static field or array element the row names holds the id of the
\* row's array, and the field name is the name of that field of the owner's
\* class.
C18_EveryOwnerRowIsGenuine ==
    analysis = "AnalyzeArrayOwners" => \A row \in RowsOf(output) : Genuine(row)

\* C19 as stated: owners are deduplicated by (ownerType, ownerId): in
\* analyzeArrayOwners an owner that holds an array through several fields or
\* indices is one row for that array, and in analyzeTopArrayOwners it is one
\* record with the fields joined.
C19_OwnersDeduplicated ==
    /\ analysis = "AnalyzeArrayOwners" =>
          \A r1, r2 \in RowsOf(output) :
              (r1.ArrayID = r2.ArrayID /\ ownerKey(r1) = ownerKey(r2)) => r1 = r2
    /\ analysis = "AnalyzeTopArrayOwners" =>
          \A i, j \in DOMAIN output :
              ("OwnerID" \in DOMAIN output[i] /\ "OwnerID" \in DOMAIN output[j]
                  /\ i # j)
                  => <<output[i].OwnerType, output[i].OwnerID>>
                         # <<output[j].OwnerType, output[j].OwnerID>>


\* the store holds no class, instance or array: the file held its header
\* and at most string records
NoHeapRecords ==
    /\ ClassObjectIdToClassDumpMap = <<>>
    /\ ObjectIdToInstanceDumpMap = <<>>
    /\ ObjectIdToObjectArrayDumpMap = <<>>
    /\ ObjectIdToPrimitiveArrayDumpMap = <<>>
    /\ IDtoSizeClassDump = <<>>
    /\ ClassObjectIdToCountInstances = <<>>

\* C20 as stated: on a store without heap records (a file of a header only,
\* or of a header and string records) every analysis returns a body with no
\* lines, whatever its parameter.
C20_EmptyStoreGivesEmptyBody ==
    (analysis # "none" /\ NoHeapRecords) => output = <<>>

-----------------------------------------------------------------------------
(* The command catalog: the interactive loop of dumpFile (package cmd,     *)
(* part_001:63-135) and the command dispatch of the HTTP handler (package  *)
(* web, part_000:45-93).  An analysis is named, not run: the analyses      *)
(* read the store only.  The lines 94-110 of dumpFile print a record and   *)
(* take no part in the control flow.                                       *)

\* the inputs of a session and the commands of the requests
MaxInputs == 4

\* var commands = []command{...}: the prompt is a string in every entry,
\* the action a func(int) AnalyzeResult
commands ==
    <<[id |-> 1, action |-> "PrintSizeClasses"],
      [id |-> 2, action |-> "PrintCountInstances"],
      [id |-> 3, action |-> "PrintObjectLoadersInfo"],
      [id |-> 4, action |-> "PrintFullClassSize"],
      [id |-> 5, action |-> "PrintArrayInfo"],
      [id |-> 6, action |-> "AnalyzeLongArrays"],
      [id |-> 7, action |-> "AnalyzeHashMapOverheads"],
      [id |-> 8, action |-> "AnalyzeArrayOwners"],
      [id |-> 9, action |-> "AnalyzeTopArrayOwners"]>>

\* what a user may enter at a prompt: a number, or something Scanln fails on
NumberMenu == {-2, -1, 0, 1, 2, 8, 9, 10}
ParameterMenu == {-1, 0, 5}

\* fmt.Scanln(&com), before the loop (part_001:76) and at its end
\* (part_001:130-133)
ScanCommand ==
    /\ session = "scanCommand"
    /\ Len(entered) < MaxInputs
    /\ \/ /\ session' = "failed"
          /\ UNCHANGED <<com, entered>>
       \/ \E v \in NumberMenu :
             /\ com' = v
             /\ entered' = Append(entered, [prompt |-> "command", value |-> v])
             /\ session' = "loop"
    /\ UNCHANGED <<cliRan, httpRan>>
    /\ UNCHANGED <<storeVars, closureVars, webVars, fileVars, stackVars,
                   analysisVars, segmentVars, extractVars, walkVars>>

\* for com != -1 { com -= 1; if commands[com].prompt != nil {
\* (part_001:80-84): the index is evaluated before com is tested
LoopHead ==
    /\ session = "loop"
    /\ IF com = -1
          THEN /\ session' = "returned"
               /\ com' = com
          ELSE /\ com' = com - 1
               /\ session' = IF com - 1 \in 0..(Len(commands) - 1)
                                THEN "scanParameter"
                                ELSE "panic"
    /\ UNCHANGED <<entered, cliRan, httpRan>>
    /\ UNCHANGED <<storeVars, closureVars, webVars, fileVars, stackVars,
                   analysisVars, segmentVars, extractVars, walkVars>>

\* fmt.Scanln(&num) and the rest of the loop body (part_001:85-92,
\* 112-129): a negative number goes on with the loop, com as it is
ScanParameter ==
    /\ session = "scanParameter"
    /\ Len(entered) < MaxInputs
    /\ \/ /\ session' = "failed"
          /\ UNCHANGED <<entered, cliRan>>
       \/ \E num \in ParameterMenu :
             /\ entered' = Append(entered, [prompt |-> "parameter", value |-> num])
             /\ IF num < 0
                   THEN /\ session' = "loop"
                        /\ UNCHANGED cliRan
                   ELSE /\ cliRan' = Append(cliRan,
                                        [id |-> commands[com + 1].id,
                                         action |-> commands[com + 1].action,
                                         parameter |-> TRUE])
                        /\ session' = "scanCommand"
    /\ UNCHANGED <<com, httpRan>>
    /\ UNCHANGED <<storeVars, closureVars, webVars, fileVars, stackVars,
                   analysisVars, segmentVars, extractVars, walkVars>>

\* the switch of the HTTP handler (part_000:69-88)
commandOfRequest(cmdNum) ==
    CASE cmdNum = 1 -> "PrintSizeClasses"
      [] cmdNum = 2 -> "PrintCountInstances"
      [] cmdNum = 3 -> "PrintObjectLoadersInfo"
      [] cmdNum = 4 -> "PrintFullClassSize"
      [] cmdNum = 5 -> "PrintArrayInfo"
      [] cmdNum = 6 -> "AnalyzeLongArrays"
      [] cmdNum = 7 -> "AnalyzeHashMapOverheads"
      [] OTHER -> "AnalyzeDuplicateStrings"

\* a request with the parameters cmd and option (part_000:46-93); option is
\* "" when it is missing and "x" when it is not a number
ServeCommand ==
    /\ session # "off"
    /\ Len(httpRan) < MaxInputs - 2
    /\ \E cmdNum \in {0, 1, 7, 8, 9}, option \in {"", "x", "5"} :
          httpRan' = Append(httpRan,
              IF cmdNum < 1 \/ cmdNum > 8
                  THEN [status |-> 400, id |-> cmdNum, action |-> "none",
                        parameter |-> FALSE]
              ELSE IF cmdNum # 8 /\ option \in {"", "x"}
                  THEN [status |-> 400, id |-> cmdNum, action |-> "none",
                        parameter |-> FALSE]
              ELSE [status |-> 200, id |-> cmdNum,
                    action |-> commandOfRequest(cmdNum),
                    parameter |-> cmdNum # 8])
    /\ UNCHANGED <<session, com, entered, cliRan>>
    /\ UNCHANGED <<storeVars, closureVars, webVars, fileVars, stackVars,
                   analysisVars, segmentVars, extractVars, walkVars>>

\* a session over a decoded file, at its first prompt
SessionInit ==
    /\ session = "scanCommand"
    /\ com = 0
    /\ entered = <<>>
    /\ cliRan = <<>>
    /\ httpRan = <<>>
    /\ EmptyStore
    /\ ClosureIdle
    /\ WebIdle
    /\ FileIdle
    /\ StackIdle
    /\ AnalysisIdle
    /\ WalkIdle
    /\ ExtractIdle
    /\ SegmentIdle

SessionNext ==
    \/ ScanCommand
    \/ LoopHead
    \/ ScanParameter
    \/ ServeCommand

SessionSpec == SessionInit /\ [][SessionNext]_vars

\* the catalog of the command numbers
Catalog ==
    <<"PrintSizeClasses", "PrintCountInstances", "PrintObjectLoadersInfo",
      "PrintFullClassSize", "PrintArrayInfo", "AnalyzeLongArrays",
      "AnalyzeHashMapOverheads", "AnalyzeDuplicateStrings">>

\* the commands the HTTP handler has run
Served == {httpRan[i] : i \in {j \in DOMAIN httpRan : httpRan[j].status = 200}}

\* C21 as stated: a command number of 1..8 runs the analysis of the catalog
\* in the interactive session and in the HTTP handler, with a parameter for
\* 1..7 and without one for 8, so the two front-ends run the same analysis
\* for the same number.
C21_SameCatalogInBothFrontEnds ==
    /\ \A r \in Range(cliRan) \cup Served :
          r.id \in 1..8 =>
              /\ r.action = Catalog[r.id]
              /\ r.parameter = (r.id # 8)
    /\ \A c \in Range(cliRan), h \in Served :
          c.id = h.id => c.action = h.action

\* C22 as stated: the session never crashes; it returns only on -1 at the
\* command prompt and runs no analysis then; a command number other than
\* -1 is followed by a run or by a fresh command prompt, and so is a
\* rejected negative parameter.
C22_MinusOneEndsTheSession ==
    /\ session # "panic"
    /\ session = "returned" =>
          entered[Len(entered)] = [prompt |-> "command", value |-> -1]
    /\ \A i \in DOMAIN entered :
          entered[i] = [prompt |-> "command", value |-> -1] => i = Len(entered)
    /\ \A i \in DOMAIN entered :
          (entered[i].prompt = "parameter" /\ entered[i].value < 0
              /\ i < Len(entered)) => entered[i + 1].prompt = "command"

-----------------------------------------------------------------------------
(* The sub-record loop over the bytes of a heap-dump record: the readers   *)
(* of class.go:373-407 and 591-742, the loop of ParseHeapDump              *)
(* (class.go:819-858) and processHeapDumpSegment of parser.go:99-128.      *)
(* A reader is [data, pos, short]: data and pos are the bytes.Reader,      *)
(* short records that a read asked for more bytes than were left, which    *)
(* the readers themselves do not look at.                                  *)

\* the sub-tags of subTagFuncMap (class.go:209-221)
RootUnknownTag == 255
RootJNIGlobalTag == 1
RootJNILocalTag == 2
RootJavaFrameTag == 3
RootNativeStackTag == 4
RootStickyClassTag == 5
RootThreadBlockTag == 6
RootMonitorUsedTag == 7
RootThreadObjectTag == 8
ClassDumpTag == 32
InstanceDumpTag == 33
ObjectArrayDumpTag == 34
PrimitiveArrayDumpTag == 35

\* binary.Read(reader, binary.BigEndian, &x) for an x of n bytes, the error
\* dropped: io.ReadFull takes what is left, x stays 0 when that is too little
readBytes(r, n) ==
    IF r.pos + n <= Len(r.data)
        THEN [b |-> SubSeq(r.data, r.pos + 1, r.pos + n),
              r |-> [r EXCEPT !.pos = @ + n]]
        ELSE [b |-> Zeros(n),
              r |-> [r EXCEPT !.pos = Len(r.data), !.short = TRUE]]

\* readID (8), readInt32 (4), readUint16 (2), readBasicType (1)
readValue(r, n) ==
    LET x == readBytes(r, n)
    IN [v |-> IF n = 4 THEN Int32Of(x.b) ELSE BigEndian(x.b), r |-> x.r]

\* func readArray(reader *bytes.Reader, size int32) []byte, size >= 0:
\* reader.Read fills the front of the slice, the rest stays 0
readArray(r, size) ==
    LET n == Min(size, Len(r.data) - r.pos)
    IN [v |-> SubSeq(r.data, r.pos + 1, r.pos + n) \o Zeros(size - n),
        r |-> [r EXCEPT !.pos = @ + n, !.short = @ \/ n < size]]

RECURSIVE readValues(_, _)
\* the fields of a composite literal, read in the order they are written
readValues(r, widths) ==
    IF widths = <<>> THEN [vs |-> <<>>, r |-> r]
    ELSE LET x == readValue(r, widths[1])
             rest == readValues(x.r, Tail(widths))
         IN [vs |-> <<x.v>> \o rest.vs, r |-> rest.r]

RECURSIVE readTypedValues(_, _, _)
\* the loops of readClassDump over the constant pool (a uint16 index), the
\* static fields (an id) and the instance fields (an id, no value)
readTypedValues(r, n, kind) ==
    IF n = 0 THEN [vs |-> <<>>, r |-> r]
    ELSE LET h == readValues(r, <<IF kind = "constant" THEN 2 ELSE 8, 1>>)
             a == IF kind = "field" THEN [v |-> <<>>, r |-> h.r]
                  ELSE readArray(h.r, GetSize(h.vs[2]))
             rest == readTypedValues(a.r, n - 1, kind)
             one == CASE kind = "constant" ->
                            [ConstantPoolIndex |-> h.vs[1], Type |-> h.vs[2],
                             Value |-> a.v]
                      [] kind = "static" ->
                            [StaticFieldNameStringId |-> h.vs[1],
                             Type |-> h.vs[2], Value |-> a.v]
                      [] OTHER ->
                            [FieldNameStringId |-> h.vs[1], Type |-> h.vs[2]]
         IN [vs |-> <<one>> \o rest.vs, r |-> rest.r]

\* the fields of the root sub-records (class.go:585-639)
RootWidths(subTag) ==
    CASE subTag \in {RootUnknownTag, RootStickyClassTag, RootMonitorUsedTag} -> <<8>>
      [] subTag = RootJNIGlobalTag -> <<8, 8>>
      [] subTag \in {RootNativeStackTag, RootThreadBlockTag} -> <<8, 4>>
      [] OTHER -> <<8, 4, 4>>

\* a uint16 count and as many entries of the kind (class.go:655-692)
countedValues(n, kind) == readTypedValues(n.r, n.v, kind)

readCounted(r, kind) == countedValues(readValue(r, 2), kind)

\* readClassDump from the instance fields on: the ClassDump it returns
classDumpAfterFields(h, statics, fields) ==
    [rec |-> [tag |-> "ClassDump",
              v |-> [ClassObjectId |-> h.vs[1], SuperClassObjectId |-> h.vs[3],
                     InstanceSize |-> h.vs[9], StaticFields |-> statics.vs,
                     InstanceFields |-> fields.vs]],
     r |-> fields.r, panic |-> FALSE]

\* readClassDump from the instance fields' count on
classDumpAfterStatics(h, statics) ==
    classDumpAfterFields(h, statics, readCounted(statics.r, "field"))

\* readClassDump from the static fields on
classDumpAfterConstants(h, cp) ==
    classDumpAfterStatics(h, readCounted(cp.r, "static"))

\* readClassDump from the constant pool on
classDumpAfterHeader(h) ==
    classDumpAfterConstants(h, readCounted(h.r, "constant"))

\* func readClassDump(reader *bytes.Reader) interface{}
readClassDump(r) ==
    classDumpAfterHeader(readValues(r, <<8, 4, 8, 8, 8, 8, 8, 8, 4>>))

\* func readInstanceDump(reader *bytes.Reader) interface{}: make([]byte,
\* size) panics for a negative size
readInstanceDump(r) ==
    LET h == readValues(r, <<8, 4, 8, 4>>)
    IN IF h.vs[4] < 0 THEN [rec |-> [tag |-> "none"], r |-> h.r, panic |-> TRUE]
       ELSE LET a == readArray(h.r, h.vs[4])
            IN [rec |-> [tag |-> "InstanceDump",
                         v |-> [ObjectId |-> h.vs[1], ClassObjectId |-> h.vs[3],
                                NumberOfBytes |-> h.vs[4],
                                InstanceFieldValues |-> a.v]],
                r |-> a.r, panic |-> FALSE]

\* func readObjectArrayDump(reader *bytes.Reader) interface{}
readObjectArrayDump(r) ==
    LET h == readValues(r, <<8, 4, 4, 8>>)
    IN IF h.vs[3] < 0 THEN [rec |-> [tag |-> "none"], r |-> h.r, panic |-> TRUE]
       ELSE LET a == readValues(h.r, [i \in 1..h.vs[3] |-> 8])
            IN [rec |-> [tag |-> "ObjectArrayDump",
                         v |-> [ArrayObjectId |-> h.vs[1],
                                NumberOfElements |-> h.vs[3],
                                ArrayClassObjectId |-> h.vs[4],
                                Elements |-> a.vs]],
                r |-> a.r, panic |-> FALSE]

\* func readPrimitiveArrayDump(reader *bytes.Reader) interface{}
readPrimitiveArrayDump(r) ==
    LET h == readValues(r, <<8, 4, 4, 1>>)
        size == MulInt32(h.vs[3], GetSize(h.vs[4]))
    IN IF size < 0 THEN [rec |-> [tag |-> "none"], r |-> h.r, panic |-> TRUE]
       ELSE LET a == readArray(h.r, size)
            IN [rec |-> [tag |-> "PrimitiveArrayDump",
                         v |-> [ArrayObjectId |-> h.vs[1],
                                NumberOfElements |-> h.vs[3],
                                ElementType |-> h.vs[4], Elements |-> a.v]],
                r |-> a.r, panic |-> FALSE]

\* readerFunction(reader) for a sub-tag of subTagFuncMap
readerFunction(subTag, r) ==
    CASE subTag = ClassDumpTag -> readClassDump(r)
      [] subTag = InstanceDumpTag -> readInstanceDump(r)
      [] subTag = ObjectArrayDumpTag -> readObjectArrayDump(r)
      [] subTag = PrimitiveArrayDumpTag -> readPrimitiveArrayDump(r)
      [] OTHER -> [rec |-> [tag |-> "Root"],
                   r |-> readValues(r, RootWidths(subTag)).r, panic |-> FALSE]

\* the keys of subTagFuncMap (class.go:767-781)
subTagFuncMap ==
    {RootUnknownTag, RootJNIGlobalTag, RootJNILocalTag, RootJavaFrameTag,
     RootNativeStackTag, RootStickyClassTag, RootThreadBlockTag,
     RootMonitorUsedTag, RootThreadObjectTag, ClassDumpTag, InstanceDumpTag,
     ObjectArrayDumpTag, PrimitiveArrayDumpTag}


\* bytes.NewReader(heapDump.data)
NewReader(data) == [data |-> data, pos |-> 0, short |-> FALSE]

\* the record loop of ParseHeapDump (class.go:786-790, 819-821) or of
\* ProcessRecords (parser.go:37-43, 86-87) reaches the next heap-dump
\* record, or the end of the file
NextHeapDump ==
    /\ loop = "records"
    /\ IF current < Len(records)
          THEN /\ current' = current + 1
               /\ subReader' = NewReader(records[current + 1])
               /\ loop' = "subRecords"
          ELSE /\ loop' = "done"
               /\ UNCHANGED <<current, subReader>>
    /\ UNCHANGED <<records, decoded, unknownAt, errors>>
    /\ UNCHANGED <<storeVars, closureVars, webVars, fileVars, stackVars,
                   analysisVars, sessionVars, extractVars, walkVars>>

\* one turn of the sub-record loop of ParseHeapDump (class.go:822-857):
\* the loop ends at the end of the payload and at a sub-tag that is not in
\* subTagFuncMap, where fmt.Errorf makes an error that nothing receives
ReadSubRecord ==
    /\ program = "ParseHeapDump"
    /\ loop = "subRecords"
    /\ IF subReader.pos >= Len(subReader.data)
          THEN /\ loop' = "records"
               /\ SetStore(Store)
               /\ UNCHANGED <<subReader, decoded, unknownAt>>
       ELSE LET subTag == readValue(subReader, 1)
            IN IF subTag.v \notin subTagFuncMap
                  THEN /\ loop' = "records"
                       /\ subReader' = subTag.r
                       /\ unknownAt' = Append(unknownAt,
                              [record |-> current, at |-> subReader.pos])
                       /\ SetStore(Store)
                       /\ UNCHANGED decoded
               ELSE LET x == readerFunction(subTag.v, subTag.r)
                    IN IF x.panic
                          THEN /\ loop' = "panic"
                               /\ subReader' = x.r
                               /\ SetStore(Store)
                               /\ UNCHANGED <<decoded, unknownAt>>
                          ELSE /\ SetStore(applyWrites(Store,
                                                       subRecordWrites(x.rec)))
                               /\ decoded' = Append(decoded,
                                      [record |-> current, at |-> subReader.pos,
                                       rec |-> x.rec, whole |-> ~x.r.short])
                               /\ subReader' = [x.r EXCEPT !.short = FALSE]
                               /\ UNCHANGED <<loop, unknownAt>>
    /\ UNCHANGED <<records, current, errors>>
    /\ UNCHANGED <<closureVars, webVars, fileVars, stackVars, analysisVars,
                   sessionVars, extractVars, walkVars>>

\* one turn of the loop of processHeapDumpSegment (parser.go:101-124).
\* readRootJavaFrame and readRootJNILocal slice data[12:16] and the offset
\* moves on by 12; any other sub-tag moves it on by one more byte.
ScanSubTag ==
    /\ program = "ProcessRecords"
    /\ loop = "subRecords"
    /\ LET data == subReader.data
           offset == subReader.pos
       IN IF offset >= Len(data)
             THEN /\ loop' = "records"
                  /\ UNCHANGED <<subReader, decoded, unknownAt>>
          ELSE IF data[offset + 1] \in {RootJavaFrameTag, RootJNILocalTag}
             THEN IF Len(data) - (offset + 1) < 16
                     THEN /\ loop' = "panic"
                          /\ UNCHANGED <<subReader, decoded, unknownAt>>
                     ELSE /\ decoded' = Append(decoded,
                                 [record |-> current, at |-> offset,
                                  rec |-> [tag |-> "Root"], whole |-> TRUE])
                          /\ subReader' = [subReader EXCEPT !.pos = offset + 13]
                          /\ UNCHANGED <<loop, unknownAt>>
          ELSE /\ subReader' = [subReader EXCEPT !.pos = offset + 2]
               /\ unknownAt' =
                      IF data[offset + 1] \in subTagFuncMap THEN unknownAt
                      ELSE Append(unknownAt, [record |-> current, at |-> offset])
               /\ UNCHANGED <<loop, decoded>>
    /\ UNCHANGED <<records, current, errors>>
    /\ UNCHANGED <<storeVars, closureVars, webVars, fileVars, stackVars,
                   analysisVars, sessionVars, extractVars, walkVars>>

\* the bytes of a dump writer: an int32 and the sub-records
Bytes4(n) == <<0, 0, 0, n>>

InstanceBytes(objectId, classObjectId, values) ==
    <<InstanceDumpTag>> \o Id8(objectId) \o Bytes4(0) \o Id8(classObjectId)
        \o Bytes4(Len(values)) \o values

ObjectArrayBytes(arrayObjectId, element) ==
    <<ObjectArrayDumpTag>> \o Id8(arrayObjectId) \o Bytes4(0) \o Bytes4(1)
        \o Id8(10) \o Id8(element)

PrimitiveArrayBytes(arrayObjectId, elements) ==
    <<PrimitiveArrayDumpTag>> \o Id8(arrayObjectId) \o Bytes4(0)
        \o Bytes4(Len(elements)) \o <<Byte>> \o elements

RootJavaFrameBytes == <<RootJavaFrameTag>> \o Id8(1) \o Bytes4(1) \o Bytes4(0)

\* a class dump without constants and static fields, with one object field
ClassDumpBytes(classObjectId) ==
    <<ClassDumpTag>> \o Id8(classObjectId) \o Bytes4(0) \o Id8(0) \o Id8(0)
        \o Id8(0) \o Id8(0) \o Id8(0) \o Id8(0) \o Bytes4(8)
        \o <<0, 0>> \o <<0, 0>> \o <<0, 1>> \o Id8(30) \o <<Object>>

\* the sub-records of the first heap-dump record; 48 is no sub-tag
SubRecordBytesMenu ==
    {InstanceBytes(1, 10, Id8(2)), ObjectArrayBytes(2, 1),
     PrimitiveArrayBytes(3, <<9, 9>>), RootJavaFrameBytes, ClassDumpBytes(10),
     <<48>>}

\* how many bytes the end of the first record lacks
CutMenu == {0, 1, 2, 6, 10, 14, 20}

RECURSIVE Flatten(_)
Flatten(ss) == IF ss = <<>> THEN <<>> ELSE ss[1] \o Flatten(Tail(ss))

\* the sub-records subs, without the last cut bytes
CutShort(subs, cut) ==
    LET b == Flatten(subs) IN SubSeq(b, 1, Len(b) - Min(cut, Len(b)))

\* a file of two heap-dump records under ParseHeapDump or under
\* ProcessRecords, its header read
SegmentInit ==
    /\ \E subs \in UNION {[1..n -> SubRecordBytesMenu] : n \in 0..MaxSubRecords},
          cut \in CutMenu,
          second \in {<<>>, InstanceBytes(4, 10, Id8(0))} :
          records = <<CutShort(subs, cut), second>>
    /\ program \in {"ParseHeapDump", "ProcessRecords"}
    /\ current = 0
    /\ subReader = NewReader(<<>>)
    /\ loop = "records"
    /\ decoded = <<>>
    /\ unknownAt = <<>>
    /\ errors = <<>>
    /\ file = <<>>
    /\ fileOffset = 0
    /\ reader = "off"
    /\ header = [kind |-> "nil"]
    /\ delivered = <<>>
    /\ printed = <<>>
    /\ EmptyStore
    /\ ClosureIdle
    /\ WebIdle
    /\ StackIdle
    /\ AnalysisIdle
    /\ WalkIdle
    /\ ExtractIdle
    /\ SessionIdle

SegmentNext ==
    \/ NextHeapDump
    \/ ReadSubRecord
    \/ ScanSubTag

SegmentSpec == SegmentInit /\ [][SegmentNext]_vars

\* the entity of a decoded sub-record is in the store
Stored(rec) ==
    CASE rec.tag = "InstanceDump" -> rec.v.ObjectId \in DOMAIN ObjectIdToInstanceDumpMap
      [] rec.tag = "ClassDump" -> rec.v.ClassObjectId \in DOMAIN ClassObjectIdToClassDumpMap
      [] rec.tag = "ObjectArrayDump" ->
            rec.v.ArrayObjectId \in DOMAIN ObjectIdToObjectArrayDumpMap
      [] rec.tag = "PrimitiveArrayDump" ->
            rec.v.ArrayObjectId \in DOMAIN ObjectIdToPrimitiveArrayDumpMap
      [] OTHER -> FALSE

\* C23 as stated: when the sub-record loop has met an unknown sub-tag in a
\* record, nothing of that record behind the sub-tag is decoded, a
\* CorruptHeapSegment error for the record is surfaced, and the next record
\* is decoded and its entities stored.
C23_UnknownSubTagAbandonsSegment ==
    \A i \in DOMAIN unknownAt :
        /\ \A j \in DOMAIN decoded :
              decoded[j].record = unknownAt[i].record
                  => decoded[j].at < unknownAt[i].at
        /\ [kind |-> "CorruptHeapSegment", record |-> unknownAt[i].record]
               \in Range(errors)
        /\ (program = "ParseHeapDump" /\ loop = "done" /\ records[2] # <<>>)
               => 4 \in DOMAIN ObjectIdToInstanceDumpMap

\* C24 as stated: a sub-record whose bytes run out before it is complete
\* gives a ShortRecord error and no entity in the store.
C24_ShortSubRecordStoresNothing ==
    \A i \in DOMAIN decoded :
        ~decoded[i].whole =>
            /\ ~Stored(decoded[i].rec)
            /\ [kind |-> "ShortRecord", record |-> decoded[i].record]
                   \in Range(errors)

-----------------------------------------------------------------------------
(* ExtractCallStackRecords (stack_frame.go:293-365) as the stack commands  *)
(* call it (stack.go:41-46): the header has been read with ReadHeader and  *)
(* the file position is behind its 31 bytes.  The record loop reads one    *)
(* record with readRecord and dispatches on its tag; for a stackTrace      *)
(* record it fetches every frame with GetFrameData, which seeks in the     *)
(* same file.  readStartThread and readEndThread with a byte-slice         *)
(* parameter are not part of the source tree; the files of the model hold  *)
(* no record with their tags.                                              *)

\* turns of the record loop in a behaviour
MaxReads == 6

TagStackTrace == 5
TagRootJavaFrame == 2
TagRootJNILocal == 3
TagStartThread == 10
TagEndThread == 11

\* int64 of eight big-endian bytes, for the values between -2^31 and 2^31
Int64Of(b) ==
    IF b[1] >= 128 THEN Int32Of(SubSeq(b, 5, 8)) ELSE BigEndian(b)

\* func GetFrameData(file *os.File, frameID int64) ([]byte, error), for an
\* open file: Seek to frameID * 40 fails on a negative offset; Read fills a
\* buffer of 64 bytes with what is left and gives io.EOF when nothing is,
\* which is turned into (nil, nil).  off is where the call leaves the file.
GetFrameData(f, off, frameID) ==
    LET offset == frameID * 40
        got == FileRead(f, Min(offset, Len(f)), 64)
    IN IF offset < 0
           THEN [data |-> <<>>, isNil |-> TRUE, err |-> "invalid argument", off |-> off]
       ELSE IF got.err = "EOF"
           THEN [data |-> <<>>, isNil |-> TRUE, err |-> "nil", off |-> offset]
       ELSE [data |-> BufferBytes(got.data), isNil |-> FALSE, err |-> "nil",
             off |-> offset + got.n]

\* func readStackFrame(data []byte) (StackFrame, error): data[:8] .. data[36:40]
\* of the 64 bytes of GetFrameData
readFrameOf(data) ==
    [FrameId |-> SubSeq(data, 1, 8),
     MethodId |-> SubSeq(data, 9, 16),
     MethodSignatureStringId |-> SubSeq(data, 17, 24),
     SourceFileNameStringId |-> SubSeq(data, 25, 32),
     ClassSerialNumber |-> SubSeq(data, 33, 36),
     flag |-> SubSeq(data, 37, 40)]

RECURSIVE framesIDFrom(_, _, _)
\* the loop of readStackTrace: FramesID[i] = data[12+i*8 : 12+(i+1)*8]
framesIDFrom(data, i, n) ==
    IF i >= n THEN <<>>
    ELSE <<Int64Of(SubSeq(data, 12 + i * 8 + 1, 12 + (i + 1) * 8))>>
         \o framesIDFrom(data, i + 1, n)

\* the first n bytes of a buffer, or all it has
BufferHead(b, n) == b.read \o Zeros(Min(b.zeros, n))

\* the trace of readStackTrace when no slice expression panics
traceOf(data, n) ==
    [panic |-> FALSE,
     StackTraceSerialNumber |-> Int32Of(SubSeq(data, 1, 4)),
     ThreadSerialNumber |-> Int32Of(SubSeq(data, 5, 8)),
     NumberOfFrames |-> n,
     FramesID |-> framesIDFrom(data, 0, n)]

\* func readStackTrace(data []byte) (StackTrace, error), data a buffer: a
\* slice expression beyond len(data) and make with a negative length panic
readTraceOf(b) ==
    IF BufferLen(b) < 12 THEN [panic |-> TRUE]
    ELSE IF Int32Of(SubSeq(BufferHead(b, 12), 9, 12)) < 0 THEN [panic |-> TRUE]
    ELSE IF Int32Of(SubSeq(BufferHead(b, 12), 9, 12)) > (BufferLen(b) - 12) \div 8
        THEN [panic |-> TRUE]
    ELSE traceOf(BufferHead(b, BufferLen(b)),
                 Int32Of(SubSeq(BufferHead(b, 12), 9, 12)))

RECURSIVE fetchFrames(_, _, _, _)
\* for _, frameID := range stackTrace.FramesID { GetFrameData; readStackFrame;
\* append }: the frames appended, how the loop ended and where it left the
\* file.  readStackFrame panics on the nil slice of a frame beyond the file.
fetchFrames(f, off, ids, frames) ==
    IF ids = <<>> THEN [frames |-> frames, end |-> "records", off |-> off]
    ELSE LET frameData == GetFrameData(f, off, Head(ids))
         IN IF frameData.err # "nil"
                THEN [frames |-> frames, end |-> "error", off |-> frameData.off]
            ELSE IF frameData.isNil
                THEN [frames |-> frames, end |-> "panic", off |-> frameData.off]
            ELSE fetchFrames(f, frameData.off, Tail(ids),
                             Append(frames, readFrameOf(frameData.data)))

\* the least len(data) the reader of a tag takes without a panic
LeastData(tag) ==
    CASE tag = StringUtf8Tag -> 8
      [] tag \in {TagRootJavaFrame, TagRootJNILocal} -> 16
      [] OTHER -> 0

\* one turn of the record loop of ExtractCallStackRecords
ExtractRecord ==
    /\ program = "ExtractCallStackRecords"
    /\ reader = "records"
    /\ Len(readAt) < MaxReads
    /\ readAt' = Append(readAt, fileOffset)
    /\ LET r == readRecord(file, fileOffset)
       IN IF r.err = "EOF"
             THEN /\ reader' = "eof"
                  /\ fileOffset' = r.off
                  /\ UNCHANGED <<delivered, stackTraces, stackFrames>>
          ELSE IF r.err # "nil"
             THEN /\ reader' = IF r.err = "panic" THEN "panic" ELSE "error"
                  /\ fileOffset' = r.off
                  /\ UNCHANGED <<delivered, stackTraces, stackFrames>>
          ELSE /\ delivered' = Append(delivered, r.record)
               /\ IF r.record.Tag \in {TagStartThread, TagEndThread}
                     THEN /\ reader' = "not in the source tree"
                          /\ fileOffset' = r.off
                          /\ UNCHANGED <<stackTraces, stackFrames>>
                  ELSE IF r.record.Tag = TagStackTrace
                     THEN LET stackTrace == readTraceOf(r.record.Data)
                          IN IF stackTrace.panic
                                THEN /\ reader' = "panic"
                                     /\ fileOffset' = r.off
                                     /\ UNCHANGED <<stackTraces, stackFrames>>
                             ELSE LET got == fetchFrames(file, r.off,
                                                stackTrace.FramesID, stackFrames)
                                  IN /\ stackTraces' = Append(stackTraces, stackTrace)
                                     /\ stackFrames' = got.frames
                                     /\ reader' = got.end
                                     /\ fileOffset' = got.off
                  ELSE /\ reader' = IF BufferLen(r.record.Data) < LeastData(r.record.Tag)
                                       THEN "panic" ELSE "records"
                       /\ fileOffset' = r.off
                       /\ UNCHANGED <<stackTraces, stackFrames>>
    /\ UNCHANGED <<file, program, header, printed, builder, stage, nextRecord,
                   startThreads, endThreads, threadStatus, threadStacks,
                   storeVars, closureVars, webVars, analysisVars, sessionVars,
                   segmentVars, walkVars>>

\* the bytes of a record: tag, four bytes of time, length, body
RecordBytes(tag, body) == <<tag>> \o Zeros(4) \o Bytes4(Len(body)) \o body

RECURSIVE Ids8(_)
Ids8(ids) == IF ids = <<>> THEN <<>> ELSE Id8(Head(ids)) \o Ids8(Tail(ids))

\* a stackTrace record of thread 1 with the frame ids `ids`
StackTraceBytes(ids) ==
    RecordBytes(TagStackTrace, Bytes4(1) \o Bytes4(1) \o Bytes4(Len(ids)) \o Ids8(ids))

\* the frame ids of a stackTrace record: 0 and 1 name offsets inside the
\* file, 3 an offset beyond its end
FrameIdMenu == {0, 1, 3}

\* the records of a file: a record of a tag without a case, empty or of
\* 24 bytes, a string record, or a stackTrace record of up to two frames
ExtractRecordMenu ==
    {RecordBytes(0, <<>>), RecordBytes(0, Zeros(24)),
     RecordBytes(StringUtf8Tag, Id8(1) \o <<97>>)}
    \cup {StackTraceBytes(ids) :
            ids \in UNION {[1..n -> FrameIdMenu] : n \in 0..2}}

\* the records of a file
MaxFileRecords == 2

\* a valid header, read, then up to MaxFileRecords records, the last one
\* whole or cut short
ExtractInit ==
    /\ EmptyStore
    /\ ClosureIdle
    /\ WebIdle
    /\ StackIdle
    /\ AnalysisIdle
    /\ WalkIdle
    /\ SegmentIdle
    /\ SessionIdle
    /\ ExtractIdle
    /\ program = "ExtractCallStackRecords"
    /\ \E recs \in UNION {[1..n -> ExtractRecordMenu] : n \in 0..MaxFileRecords},
          cut \in {0, 3} :
          file = ValidHeader \o CutShort(recs, cut)
    /\ fileOffset = 31
    /\ reader = "records"
    /\ header = [kind |-> "nil"]
    /\ delivered = <<>>
    /\ printed = <<>>

ExtractNext == ExtractRecord

ExtractSpec == ExtractInit /\ [][ExtractNext]_vars

RECURSIVE ReadInOrder(_, _)
\* the records recs lie one behind the other from the position at on
ReadInOrder(ats, recs) ==
    \/ Len(ats) <= 1
    \/ /\ recs # <<>>
       /\ ats[2] = ats[1] + 9 + Head(recs).Length
       /\ ReadInOrder(Tail(ats), Tail(recs))

\* C27: record extraction is a single pass: every record is read once, at
\* the position the length of the record before it fixes, the read position
\* never moves backwards, and so the record loop comes to the end of every
\* finite file, files with stackTrace records among them.
C27_SinglePassExtraction ==
    /\ \A i, j \in DOMAIN readAt : i < j => readAt[i] < readAt[j]
    /\ ReadInOrder(readAt, delivered)
    /\ (readAt # <<>>) => readAt[Len(readAt)] <= fileOffset

-----------------------------------------------------------------------------
(* The superclass walk of the instance projections, turn by turn: the      *)
(* first loop of parseInstanceReferences (class.go:1103-1116) and the      *)
(* loop of AnalyzeDuplicateStrings (array_info.go:140-152).  allFieldsFrom *)
(* is the value the loop leaves when it ends; here the store may name a    *)
(* class as its own ancestor.                                              *)

\* turns of the loop in a behaviour
MaxTurns == 5

\* the superclass a class dump of the store may name: none, a class of the
\* store, itself among them, or a class the store may lack
SuperMenu == {0, 10, 11, 12, 13}

\* currentClassId := instance.ClassObjectId; var allFields []InstanceFieldRecord
StartWalk ==
    /\ walkAt = "off"
    /\ \E objId \in DOMAIN ObjectIdToInstanceDumpMap,
          w \in {"parseInstanceReferences", "AnalyzeDuplicateStrings"} :
          /\ walker' = w
          /\ walkClassId' = ObjectIdToInstanceDumpMap[objId].ClassObjectId
    /\ walkFields' = <<>>
    /\ walkAt' = "loop"
    /\ UNCHANGED <<walkTurns, storeVars, closureVars, webVars, fileVars,
                   stackVars, analysisVars, sessionVars, segmentVars,
                   extractVars>>

\* one turn of the for loop: it ends at an id without a class dump and at
\* the superclass id 0, and at nothing else
WalkTurn ==
    /\ walkAt = "loop"
    /\ walkTurns < MaxTurns
    /\ walkTurns' = walkTurns + 1
    /\ IF walkClassId \notin DOMAIN ClassObjectIdToClassDumpMap
          THEN /\ walkAt' = "done"
               /\ UNCHANGED <<walkClassId, walkFields>>
       ELSE LET classDump == ClassObjectIdToClassDumpMap[walkClassId]
            IN /\ walkFields' = classDump.InstanceFields \o walkFields
               /\ walkAt' = IF classDump.SuperClassObjectId = 0
                              THEN "done" ELSE "loop"
               /\ walkClassId' =
                     IF walker = "AnalyzeDuplicateStrings"
                        /\ classDump.SuperClassObjectId = 0
                         THEN walkClassId
                         ELSE classDump.SuperClassObjectId
    /\ UNCHANGED <<walker, storeVars, closureVars, webVars, fileVars,
                   stackVars, analysisVars, sessionVars, segmentVars,
                   extractVars>>

\* the classes 10, 11 and 12, each in the store or not and each naming a
\* superclass out of SuperMenu, and one instance of class 10
WalkInit ==
    /\ \E present \in SUBSET {10, 11, 12}, super \in [{10, 11, 12} -> SuperMenu] :
          ClassObjectIdToClassDumpMap =
              [c \in present |->
                  [ClassObjectId |-> c,
                   SuperClassObjectId |-> super[c],
                   InstanceSize |-> 8,
                   StaticFields |-> <<>>,
                   InstanceFields |-> IF c = 11 THEN <<>> ELSE <<[Type |-> Object]>>]]
    /\ ObjectIdToInstanceDumpMap =
           (1 :> [ObjectId |-> 1, ClassObjectId |-> 10, NumberOfBytes |-> 8,
                  InstanceFieldValues |-> Id8(2)])
    /\ ObjectIdToObjectArrayDumpMap = <<>>
    /\ ObjectIdToPrimitiveArrayDumpMap = <<>>
    /\ IDtoSizeClassDump = <<>>
    /\ ClassObjectIdToCountInstances = <<>>
    /\ IDtoStringInUTF8 = <<>>
    /\ ClassObjectIdToClassNameID = <<>>
    /\ ClosureIdle
    /\ WebIdle
    /\ FileIdle
    /\ StackIdle
    /\ AnalysisIdle
    /\ SegmentIdle
    /\ SessionIdle
    /\ ExtractIdle
    /\ WalkIdle

WalkNext ==
    \/ StartWalk
    \/ WalkTurn

WalkSpec == WalkInit /\ [][WalkNext]_vars

\* C28: the superclass walk of an instance projection ends for every store,
\* at the superclass id 0 or at an id without a class dump, also when the
\* class dumps form a cycle: the loop takes one turn per class of the chain
\* and one more at most, so it never takes more turns than the store has
\* class dumps, plus one.
C28_WalkEndsOnEveryStore ==
    walkTurns <= Cardinality(DOMAIN ClassObjectIdToClassDumpMap) + 1

-----------------------------------------------------------------------------
(* The 32-bit lengths and sizes of a dump: the length of a top-level       *)
(* record (readRecord, class.go:455-466), the element count of an array    *)
(* sub-record (class.go:712-742) and the sizes computed from the counts    *)
(* (getObjectSize, class.go:1135-1145; AnalyzeLongArrays,                  *)
(* array_info.go:14-60).  The store holds the object array 1 and the       *)
(* primitive array 2 with counts up to 2^31 - 1, their elements, all 0,    *)
(* kept as their number; the file holds one record of a tag without a case *)
(* and the heap-dump record one array sub-record, with length and count    *)
(* bytes out of the whole unsigned range.                                  *)

\* four bytes of a length or a count: 2, 2^31 - 1, 2^31 and 2^32 - 1
WideBytesMenu ==
    {<<0, 0, 0, 2>>, <<127, 255, 255, 255>>, <<128, 0, 0, 0>>,
     <<255, 255, 255, 255>>}

\* the element counts of the stored arrays: 2; 2^28 - 3, the last count of
\* 8-byte elements whose size is below 2^31; 2^28 - 2; 2^29; 2^31 - 1
CountMenu == {2, 268435453, 268435454, 536870912, MaxInt32}

\* the minElements of a call of AnalyzeLongArrays
MinElementsMenu == {0, 3}

\* the ArrayInfo records of AnalyzeLongArrays (array_info.go:28-52); the
\* name of the kind is kept as the class id or the element type it is made of
arrayInfos(minElements) ==
    {[Kind |-> <<"ObjectArray", ObjectIdToObjectArrayDumpMap[a].ArrayClassObjectId>>,
      ObjectID |-> a,
      NumElements |-> ObjectIdToObjectArrayDumpMap[a].NumberOfElements,
      TotalSize |-> AddInt32(ArrayHeaderSize,
                       MulInt32(ObjectIdToObjectArrayDumpMap[a].NumberOfElements, 8))] :
        a \in {x \in DOMAIN ObjectIdToObjectArrayDumpMap :
                  ObjectIdToObjectArrayDumpMap[x].NumberOfElements >= minElements}}
    \cup
    {[Kind |-> <<"PrimitiveArray", ObjectIdToPrimitiveArrayDumpMap[a].ElementType>>,
      ObjectID |-> a,
      NumElements |-> ObjectIdToPrimitiveArrayDumpMap[a].NumberOfElements,
      TotalSize |-> AddInt32(ArrayHeaderSize,
                       MulInt32(ObjectIdToPrimitiveArrayDumpMap[a].NumberOfElements,
                                GetSize(ObjectIdToPrimitiveArrayDumpMap[a].ElementType)))] :
        a \in {x \in DOMAIN ObjectIdToPrimitiveArrayDumpMap :
                  ObjectIdToPrimitiveArrayDumpMap[x].NumberOfElements >= minElements}}

\* func AnalyzeLongArrays(minElements int) (result AnalyzeResult): the
\* arrays of minElements elements or more, by TotalSize descending;
\* sort.Slice puts arrays of the same TotalSize in any order
AnalyzeLongArrays ==
    /\ analysis = "none"
    /\ \E minElements \in MinElementsMenu :
          \E rows \in Orders(arrayInfos(minElements)) :
              /\ \A i, j \in DOMAIN rows :
                    i < j => rows[i].TotalSize >= rows[j].TotalSize
              /\ output' = [minElements |-> minElements, Body |-> rows]
    /\ analysis' = "AnalyzeLongArrays"
    /\ UNCHANGED <<storeVars, closureVars, webVars, fileVars, stackVars,
                   sessionVars, segmentVars, extractVars, walkVars>>

\* an object-array sub-record of the array 3 with the count bytes `count`
\* and two elements in the file
WideObjectArrayBytes(count) ==
    <<ObjectArrayDumpTag>> \o Id8(3) \o Bytes4(0) \o count \o Id8(10)
        \o Id8(0) \o Id8(0)

\* a primitive-array sub-record of the byte array 4
WidePrimitiveArrayBytes(count) ==
    <<PrimitiveArrayDumpTag>> \o Id8(4) \o Bytes4(0) \o count \o <<Byte>>
        \o <<9, 9>>

\* the decoders are handed sub-records whose counts the model can hold
Holdable(count) == count[1] >= 128 \/ BigEndian(count) <= MaxElements

WidthInit ==
    /\ \E n \in CountMenu :
          ObjectIdToObjectArrayDumpMap =
              (1 :> [ArrayObjectId |-> 1, NumberOfElements |-> n,
                     ArrayClassObjectId |-> 10,
                     Elements |-> [read |-> <<>>, zeros |-> n]])
    /\ \E n \in CountMenu, t \in {Byte, Long} :
          /\ MulInt32(n, GetSize(t)) >= 0
          /\ ObjectIdToPrimitiveArrayDumpMap =
                 (2 :> [ArrayObjectId |-> 2, NumberOfElements |-> n,
                        ElementType |-> t,
                        Elements |-> [read |-> <<>>,
                                      zeros |-> MulInt32(n, GetSize(t))]])
    /\ ClassObjectIdToClassDumpMap = <<>>
    /\ ObjectIdToInstanceDumpMap = <<>>
    /\ IDtoSizeClassDump = <<>>
    /\ ClassObjectIdToCountInstances = <<>>
    /\ IDtoStringInUTF8 = <<>>
    /\ ClassObjectIdToClassNameID = <<>>
    /\ \E length \in WideBytesMenu :
          file = ValidHeader \o <<0>> \o Zeros(4) \o length \o <<0, 0>>
    /\ fileOffset = 31
    /\ program = "ParseHeapDump"
    /\ reader = "records"
    /\ header = [Magic |-> hprofMark \o <<0>>, IdentifierSize |-> 8]
    /\ delivered = <<>>
    /\ printed = <<>>
    /\ \E count \in {c \in WideBytesMenu : Holdable(c)} :
          records \in {<<WideObjectArrayBytes(count)>>,
                       <<WidePrimitiveArrayBytes(count)>>}
    /\ current = 0
    /\ subReader = NewReader(<<>>)
    /\ loop = "records"
    /\ decoded = <<>>
    /\ unknownAt = <<>>
    /\ errors = <<>>
    /\ ClosureIdle
    /\ WebIdle
    /\ StackIdle
    /\ AnalysisIdle
    /\ SessionIdle
    /\ ExtractIdle
    /\ WalkIdle

WidthNext ==
    \/ ReadRecordStep
    \/ NextHeapDump
    \/ ReadSubRecord
    \/ MeasureObject
    \/ AnalyzeLongArrays

WidthSpec == WidthInit /\ [][WidthNext]_vars

\* size is the number 16 + n * w: the multiplication is done backwards,
\* so that no number beyond 2^31 is written
SizeIsExact(size, n, w) ==
    /\ size >= ArrayHeaderSize
    /\ IF w = 0 THEN size = ArrayHeaderSize
       ELSE /\ (size - ArrayHeaderSize) % w = 0
            /\ (size - ArrayHeaderSize) \div w = n

\* the width the elements of a stored array have
ElementWidth(a) ==
    IF a \in DOMAIN ObjectIdToObjectArrayDumpMap THEN 8
    ELSE GetSize(ObjectIdToPrimitiveArrayDumpMap[a].ElementType)

\* C30: lengths and sizes never wrap around or go negative: for every
\* record length and every element count of the unsigned 32-bit range the
\* decoder allocates and reads that many bytes or elements, no allocation
\* panics, and the size of an array, in getObjectSize and in the rows of
\* AnalyzeLongArrays, is the number 16 + n * width.
C30_LengthsAndSizesNeverWrap ==
    /\ reader # "panic"
    /\ loop # "panic"
    /\ \A i \in DOMAIN delivered :
          /\ delivered[i].Length >= 0
          /\ BufferLen(delivered[i].Data) = delivered[i].Length
    /\ analysis = "getObjectSize" =>
          SizeIsExact(output.size,
                      getObject(output.objectId).v.NumberOfElements,
                      ElementWidth(output.objectId))
    /\ analysis = "AnalyzeLongArrays" =>
          \A i \in DOMAIN output.Body :
              SizeIsExact(output.Body[i].TotalSize, output.Body[i].NumElements,
                          ElementWidth(output.Body[i].ObjectID))

=============================================================================
